---- MODULE Spec2Model ----
(***************************************************************************)
(* Node/combinator engine of functional-ai: Cache, Parallel, Sequential,   *)
(* Retry, Catch and Loop, modelled from src/operators/*.py and             *)
(* src/auxiliary.py.  Each combinator has its own specification; the       *)
(* variables of the other combinators stay at their initial values.        *)
(***************************************************************************)
EXTENDS Integers, Sequences, FiniteSets, TLC

(***************************************************************************)
(* Values.  None is Python's None.  A child (a Target the combinator       *)
(* wraps) is an arbitrary callable: each invocation returns any value of   *)
(* Results or raises any exception of Failures.                            *)
(***************************************************************************)
None == "None"
StrValues == {"v1", "v2"}
Results == StrValues \cup {None}
Failures == {"e1", "e2"}

Ret(v) == [kind |-> "ret", val |-> v]
Raise(e) == [kind |-> "raise", val |-> e]

\* bounds of the model
MaxThreads == 2
MaxCalls == 3
MaxClears == 1
MaxNodes == 2

VARIABLES
    \* ---- Cache (src/operators/cache.py)
    skind,        \* "mem": Storage, "file": FileStorage
    nthreads,     \* number of threads that call the node
    storage,      \* Storage._storage
    fileExists,   \* os.path.exists(FileStorage._filename)
    fileContent,  \* content of the backing file
    cpc,          \* per thread: position inside Cache.__call__
    cval,         \* per thread: value returned by the child, about to be set
    cn,           \* per thread: child invocations made by the current/last call
    cevald,       \* per thread: the current/last call got a value from the child
    cfirst,       \* per thread: the call tested is_empty before any set/clear
    cret,         \* per thread: outcome of the last completed call
    hist,         \* completed calls since construction or the last clear()
    firstEval,    \* value of the first successful child evaluation
    everSet,      \* Storage.set has been executed
    clears,       \* number of clear() calls
    started,      \* number of calls started
    ckwargs,      \* per thread: named arguments of the current/last call
    lastClear,    \* the last clear(): entry populated before, changed, outcome
    node,         \* the Cache instance in use: nodes built over the same storage
    \* ---- Parallel (src/operators/parallel.py)
    pn,           \* len(agents)
    pkeys,        \* agent.key of every child, in declared order
    preducer,     \* None, or accepted_keys(reducer)
    pkwargs,      \* the argument set the node is called with
    ppc,          \* position inside Parallel.__call__
    pi,           \* next child to submit
    pj,           \* next future to collect
    fut,          \* state of every future
    pseen,        \* per child: the argument set of every start
    porder,       \* children in completion order
    plist,        \* results (the list of line 20)
    presults,     \* results (the dict of line 21)
    pexc,         \* exception leaving the with block, or None
    pargs,        \* named arguments the reducer was invoked with
    prcalls,      \* number of reducer invocations
    pout,         \* outcome of the call
    \* ---- Sequential (src/operators/sequential.py)
    sqn,          \* len(self.agents)
    sqkeys,       \* agent.key of every child, in list order
    sqreducer,    \* None, or accepted_keys(reducer)
    sqkwargs0,    \* the argument set held by the caller
    sqkwargs,     \* kwargs of __call__
    sqresults,    \* results of __call__
    sqpc,         \* position inside Sequential.__call__
    sqi,          \* index of the current child
    sqresult,     \* result of __call__ (line 21)
    sqcalls,      \* every child invocation so far: child, arguments, outcome
    sqargs,       \* named arguments the reducer was invoked with
    sqrcalls,     \* number of reducer invocations
    sqout,        \* outcome of the call
    \* ---- Retry (src/operators/catch.py)
    max_retry,    \* Retry.max_retry
    timeout_millis, \* Retry.timeout_millis
    timeout_mult, \* Retry.timeout_mult
    rsleeps,      \* the arguments of time.sleep since construction, in seconds
    iteration,    \* Retry.iteration
    rpc,          \* position inside Retry.__call__
    rcalls,       \* number of calls started on the node
    ritstart,     \* value of the counter when the current/last call started
    rinv,         \* child invocations of the current/last call
    rfails,       \* failed child invocations of the current/last call
    rlast,        \* outcome of the child's last invocation
    rfailsEver,   \* failed child invocations over the node's lifetime
    rabsorbed,    \* failures followed by another attempt, over the lifetime
    rout,         \* outcome of the last completed call
    \* ---- Catch (src/operators/catch.py)
    kpc,          \* position inside Catch.__call__
    kkwargs,      \* named arguments of the current/last call
    kcalls,       \* number of calls started on the node
    kprimary,     \* invocations of the primary by the current/last call
    kfallback,    \* invocations of the fallback by the current/last call
    kcaught,      \* outcome of the primary
    kfbargs,      \* named arguments the fallback was invoked with
    kfbout,       \* outcome of the fallback
    kout,         \* outcome of the last completed call
    \* ---- Loop (src/operators/loop.py)
    lvia,         \* "loop" or "loopn": the function that built the node
    lcond,        \* condition: always true, or idx < count; varkw: it accepts **kwargs
    lreducer,     \* self.reducer is callable
    lkey,         \* target.key
    lkwargs0,     \* the argument set held by the caller
    lkwargs,      \* kwargs of __call__
    lindex,       \* index
    lresults,     \* results
    lpc,          \* position inside Loop.__call__
    lcalls,       \* every child invocation so far: idx, arguments, outcome
    lredarg,      \* the list the reducer was invoked with
    lrcalls,      \* number of reducer invocations
    lout,         \* outcome of the call
    lconds,       \* evaluations of the condition: idx, arguments bound, result
    \* ---- Fork (src/operators/fork.py)
    fkkey,        \* self._target.key
    fkkwargs,     \* the argument set the node is called with
    fkargs,       \* the positional arguments the node is called with
    fkpc,         \* position inside Fork.__call__
    fkseed,       \* number of invocations of the seed child
    fkseedargs,   \* named arguments the seed was invoked with
    fkseedout,    \* outcome of the seed
    fkmaps,       \* number of mapper invocations
    fkmapargs,    \* named arguments the mapper was invoked with
    fkmapped,     \* the mapper has returned
    fkn,          \* len(targets)
    fki,          \* next generated child to submit
    fkj,          \* next future to collect
    fkfut,        \* state of every future
    fkseen,       \* per generated child: the argument set of every start
    fkorder,      \* generated children in completion order
    fklist,       \* results (the list of line 20)
    fkexc,        \* exception leaving the with block, or None
    fkredarg,     \* the list the reducer was invoked with
    fkrcalls,     \* number of reducer invocations
    fkout,        \* outcome of the call
    \* ---- Switch (src/operators/switch.py)
    wpc,          \* position inside Switch.__call__
    wkwargs,      \* named arguments of the current/last call
    wcalls,       \* number of calls started on the node
    wconds,       \* evaluations of the condition by the current/last call
    wcondargs,    \* named arguments the condition was evaluated on
    wcond,        \* outcome of the condition
    wif,          \* invocations of the if-branch by the current/last call
    welse,        \* invocations of the else-branch by the current/last call
    wbrargs,      \* named arguments the branch was invoked with
    wbrout,       \* outcome of the invoked branch
    wout,         \* outcome of the last completed call
    \* ---- safe_lambda (src/auxiliary.py)
    bkeys,        \* keys: accepted_keys of the function
    bkwargs,      \* the argument mapping the helper is applied to
    bnpos,        \* len(args): positional arguments handed to the helper
    bpc,          \* "ready" before the helper is applied, "done" after
    binvoked,     \* the function has been invoked
    bpassed,      \* all_args: named arguments the function was invoked with
    bout,         \* outcome of the helper
    \* ---- Chat (src/operators/chat.py)
    max_iter,     \* Chat.max_iter
    chkwargs,     \* the argument set the node is called with
    chpc,         \* position inside Chat.__call__
    chat_history, \* the list chat_history: each entry a sequence of words
    chround,      \* iterations of the for loop begun
    chagents,     \* invocations of the agent
    chinputs,     \* calls of input_user
    chout         \* outcome of the call

cacheVars == <<skind, nthreads, storage, fileExists, fileContent, cpc, cval, cn,
               cevald, cfirst, cret, hist, firstEval, everSet, clears, started,
               ckwargs, lastClear, node>>

parVars == <<pn, pkeys, preducer, pkwargs, ppc, pi, pj, fut, pseen, porder, plist,
             presults, pexc, pargs, prcalls, pout>>

seqVars == <<sqn, sqkeys, sqreducer, sqkwargs0, sqkwargs, sqresults, sqpc, sqi,
             sqresult, sqcalls, sqargs, sqrcalls, sqout>>

retryVars == <<max_retry, timeout_millis, timeout_mult, rsleeps, iteration, rpc, rcalls, ritstart, rinv, rfails, rlast,
               rfailsEver, rabsorbed, rout>>

catchVars == <<kpc, kkwargs, kcalls, kprimary, kfallback, kcaught, kfbargs, kfbout,
               kout>>

loopVars == <<lvia, lcond, lreducer, lkey, lkwargs0, lkwargs, lindex, lresults, lpc,
              lcalls, lredarg, lrcalls, lout, lconds>>

forkVars == <<fkkey, fkkwargs, fkargs, fkpc, fkseed, fkseedargs, fkseedout, fkmaps,
              fkmapargs, fkmapped, fkn, fki, fkj, fkfut, fkseen, fkorder, fklist,
              fkexc, fkredarg, fkrcalls, fkout>>

switchVars == <<wpc, wkwargs, wcalls, wconds, wcondargs, wcond, wif, welse, wbrargs,
                wbrout, wout>>

bindVars == <<bkeys, bkwargs, bnpos, bpc, binvoked, bpassed, bout>>

chatVars == <<max_iter, chkwargs, chpc, chat_history, chround, chagents, chinputs,
              chout>>

vars == <<cacheVars, parVars, seqVars, retryVars, catchVars, loopVars, forkVars,
          switchVars, bindVars, chatVars>>

nonCacheVars == <<parVars, seqVars, retryVars, catchVars, loopVars, forkVars,
                  switchVars, bindVars, chatVars>>
nonParVars == <<cacheVars, seqVars, retryVars, catchVars, loopVars, forkVars,
                switchVars, bindVars, chatVars>>
nonSeqVars == <<cacheVars, parVars, retryVars, catchVars, loopVars, forkVars,
                switchVars, bindVars, chatVars>>
nonRetryVars == <<cacheVars, parVars, seqVars, catchVars, loopVars, forkVars,
                  switchVars, bindVars, chatVars>>
nonLoopVars == <<cacheVars, parVars, seqVars, retryVars, catchVars, forkVars,
                 switchVars, bindVars, chatVars>>
nonCatchVars == <<cacheVars, parVars, seqVars, retryVars, loopVars, forkVars,
                  switchVars, bindVars, chatVars>>
nonForkVars == <<cacheVars, parVars, seqVars, retryVars, catchVars, loopVars,
                 switchVars, bindVars, chatVars>>
nonSwitchVars == <<cacheVars, parVars, seqVars, retryVars, catchVars, loopVars,
                   forkVars, bindVars, chatVars>>
nonBindVars == <<cacheVars, parVars, seqVars, retryVars, catchVars, loopVars,
                 forkVars, switchVars, chatVars>>
nonChatVars == <<cacheVars, parVars, seqVars, retryVars, catchVars, loopVars,
                 forkVars, switchVars, bindVars>>

Threads == 1..MaxThreads
NoOutcome == [kind |-> "none", val |-> None]

\* Python dicts
EmptyDict == [k \in {} |-> None]
Put(d, k, v) == [x \in DOMAIN d \cup {k} |-> IF x = k THEN v ELSE d[x]]

\* argument sets a node is called with
ArgSets == {EmptyDict, [a |-> "x0"]}

(***************************************************************************)
(* Storage / FileStorage                                                   *)
(***************************************************************************)
\* Storage.is_empty / FileStorage.is_empty
\* FileStorage.is_empty, line 40: not os.path.exists(self._filename)
PathNeverMissing(exists) == FALSE
PathMissing(exists) == ~exists

\* Storage.is_empty / FileStorage.is_empty
is_empty == IF skind = "mem" THEN storage = None ELSE PathMissing(fileExists)

InitCacheCommon ==
    /\ skind \in {"mem", "file"}
    /\ storage = None
    /\ fileExists = FALSE
    /\ fileContent = ""
    /\ cpc = [t \in Threads |-> "idle"]
    /\ cval = [t \in Threads |-> None]
    /\ cn = [t \in Threads |-> 0]
    /\ cevald = [t \in Threads |-> FALSE]
    /\ cfirst = [t \in Threads |-> FALSE]
    /\ cret = [t \in Threads |-> NoOutcome]
    /\ hist = <<>>
    /\ firstEval = "unset"
    /\ everSet = FALSE
    /\ clears = 0
    /\ started = 0
    /\ ckwargs = [t \in Threads |-> EmptyDict]
    /\ lastClear = [populated |-> FALSE, changed |-> FALSE, out |-> NoOutcome]
    /\ node = 1

\* completion of Cache.__call__ on thread t with outcome o; the history
\* records whether the call leaves the entry populated, what is stored, the
\* arguments of the call and the value its child returned, if any; a call
\* completed at line 53 by the child's exception has invoked the child
CacheDone(t, o) ==
    /\ cpc' = [cpc EXCEPT ![t] = "idle"]
    /\ cret' = [cret EXCEPT ![t] = o]
    /\ hist' = Append(hist, [out |-> o,
                             n |-> IF cpc[t] = "target" THEN cn[t] + 1 ELSE cn[t],
                             populated |-> ~is_empty,
                             stored |-> IF skind = "mem" THEN storage ELSE fileContent,
                             kw |-> ckwargs[t], evald |-> cevald[t], val |-> cval[t],
                             node |-> node])

\* lines 52-55: an empty entry is computed and stored, a populated one is
\* only read
AlwaysCompute(empty) == "target"
AfterEmptyTest(empty) == IF empty THEN "target" ELSE "get"

\* Cache.__call__, line 52: if self._storage.is_empty()
CacheCall(t, kw) ==
    /\ UNCHANGED <<node, nonCacheVars>>
    /\ t <= nthreads
    /\ cpc[t] = "idle"
    /\ started < MaxCalls
    /\ started' = started + 1
    /\ ckwargs' = [ckwargs EXCEPT ![t] = kw]
    /\ cpc' = [cpc EXCEPT ![t] = AfterEmptyTest(is_empty)]
    /\ cn' = [cn EXCEPT ![t] = 0]
    /\ cevald' = [cevald EXCEPT ![t] = FALSE]
    /\ cfirst' = [cfirst EXCEPT ![t] = ~everSet /\ clears = 0]
    /\ UNCHANGED <<skind, nthreads, lastClear, storage, fileExists, fileContent, cval, cret,
                   hist, firstEval, everSet, clears>>

\* line 53: self._target(*args, **kwargs) returns v
CacheTargetReturn(t, v) ==
    /\ UNCHANGED <<node, nonCacheVars>>
    /\ cpc[t] = "target"
    /\ cn' = [cn EXCEPT ![t] = @ + 1]
    /\ cevald' = [cevald EXCEPT ![t] = TRUE]
    /\ cval' = [cval EXCEPT ![t] = v]
    /\ firstEval' = IF firstEval = "unset" THEN v ELSE firstEval
    /\ cpc' = [cpc EXCEPT ![t] = "set"]
    /\ UNCHANGED <<skind, nthreads, lastClear, ckwargs, storage, fileExists, fileContent, cfirst, cret,
                   hist, everSet, clears, started>>

\* line 53: no handler surrounds self._target(*args, **kwargs)
TargetFailureSwallowed(e) == Ret(None)
TargetFailure(e) == Raise(e)

\* line 53: self._target(*args, **kwargs) raises e, which leaves __call__
\* before Storage.set is entered
CacheTargetRaise(t, e) ==
    /\ UNCHANGED <<node, nonCacheVars>>
    /\ cpc[t] = "target"
    /\ cn' = [cn EXCEPT ![t] = @ + 1]
    /\ CacheDone(t, TargetFailure(e))
    /\ UNCHANGED <<skind, nthreads, lastClear, ckwargs, storage, fileExists, fileContent, cval, cevald,
                   cfirst, firstEval, everSet, clears, started>>

\* line 53: self._storage.set(value).  Storage.set assigns; FileStorage.set
\* opens the file for writing, which creates or truncates it.
StorageSet(t) ==
    /\ UNCHANGED <<node, nonCacheVars>>
    /\ cpc[t] = "set"
    /\ everSet' = TRUE
    /\ IF skind = "mem"
         THEN /\ storage' = cval[t]
              /\ cpc' = [cpc EXCEPT ![t] = "get"]
              /\ UNCHANGED <<fileExists, fileContent>>
         ELSE /\ fileExists' = TRUE
              /\ fileContent' = ""
              /\ cpc' = [cpc EXCEPT ![t] = "write"]
              /\ UNCHANGED storage
    /\ UNCHANGED <<skind, nthreads, lastClear, ckwargs, cval, cn, cevald, cfirst, cret, hist, firstEval,
                   clears, started>>

\* FileStorage.set, line 33: f.write(value); a value that is not a str
\* raises TypeError, which leaves __call__
FileWrite(t) ==
    /\ UNCHANGED <<node, nonCacheVars>>
    /\ cpc[t] = "write"
    /\ IF cval[t] \in StrValues
         THEN /\ fileContent' = cval[t]
              /\ cpc' = [cpc EXCEPT ![t] = "get"]
              /\ UNCHANGED <<cret, hist>>
         ELSE /\ CacheDone(t, Raise("TypeError"))
              /\ UNCHANGED fileContent
    /\ UNCHANGED <<skind, nthreads, lastClear, ckwargs, storage, fileExists, cval, cn, cevald, cfirst,
                   firstEval, everSet, clears, started>>

\* line 55: return self._storage.get().  FileStorage.get opens the file
\* for reading, which raises when the file is gone.
StorageGet(t) ==
    /\ UNCHANGED <<node, nonCacheVars>>
    /\ cpc[t] = "get"
    /\ CacheDone(t, IF skind = "mem" THEN Ret(storage)
                    ELSE IF fileExists THEN Ret(fileContent)
                    ELSE Raise("FileNotFoundError"))
    /\ UNCHANGED <<skind, nthreads, lastClear, ckwargs, storage, fileExists, fileContent, cval, cn,
                   cevald, cfirst, firstEval, everSet, clears, started>>

\* Storage.clear, line 17: self._storage = None
ClearedKept(v) == v
Cleared(v) == None

\* FileStorage.clear, lines 36-37: os.remove is reached only when the file
\* exists; os.remove of a missing file raises FileNotFoundError
RemoveReached(exists) == exists

\* Cache.clear -> Storage.clear / FileStorage.clear, called between calls
\* of the calling thread
CacheClear(t) ==
    /\ UNCHANGED <<node, nonCacheVars>>
    /\ t <= nthreads
    /\ cpc[t] = "idle"
    /\ clears < MaxClears
    /\ clears' = clears + 1
    /\ IF skind = "mem"
         THEN /\ storage' = Cleared(storage)
              /\ UNCHANGED <<fileExists, fileContent>>
         ELSE /\ fileExists' = IF RemoveReached(fileExists) THEN FALSE ELSE fileExists
              /\ fileContent' = IF RemoveReached(fileExists) THEN "" ELSE fileContent
              /\ UNCHANGED storage
    /\ lastClear' = [populated |-> ~is_empty,
                     changed |-> \/ storage' # storage
                                 \/ fileExists' # fileExists
                                 \/ fileContent' # fileContent,
                     out |-> IF skind = "file" /\ RemoveReached(fileExists) /\ ~fileExists
                               THEN Raise("FileNotFoundError") ELSE Ret(None)]
    /\ hist' = <<>>
    /\ UNCHANGED <<skind, nthreads, ckwargs, cpc, cval, cn, cevald, cfirst, cret,
                   firstEval, everSet, started>>

NextCache ==
    \/ \E t \in Threads, kw \in ArgSets : CacheCall(t, kw)
    \/ \E t \in Threads, v \in Results : CacheTargetReturn(t, v)
    \/ \E t \in Threads, e \in Failures : CacheTargetRaise(t, e)
    \/ \E t \in Threads : StorageSet(t)
    \/ \E t \in Threads : FileWrite(t)
    \/ \E t \in Threads : StorageGet(t)
    \/ \E t \in Threads : CacheClear(t)

\* store(target, filename) once more, over the file an earlier node left:
\* another Cache over a FileStorage of the same path; the node keeps
\* nothing but the file name
StoreNew ==
    /\ skind = "file"
    /\ \A t \in Threads : cpc[t] = "idle"
    /\ node < MaxNodes
    /\ fileExists
    /\ node' = node + 1
    /\ UNCHANGED <<skind, nthreads, storage, fileExists, fileContent, cpc, cval, cn,
                   cevald, cfirst, cret, hist, firstEval, everSet, clears, started,
                   ckwargs, lastClear>>
    /\ UNCHANGED nonCacheVars

\* the entry of the history that stands for a removal of the file
Removal == [out |-> NoOutcome, n |-> 0, populated |-> FALSE, stored |-> "",
            kw |-> EmptyDict, evald |-> FALSE, val |-> None, node |-> 0]

\* test_store, line 79: os.remove(filename) by the owner of the file,
\* between calls
FileRemove ==
    /\ skind = "file"
    /\ \A t \in Threads : cpc[t] = "idle"
    /\ fileExists
    /\ clears < MaxClears
    /\ clears' = clears + 1
    /\ fileExists' = FALSE
    /\ fileContent' = ""
    /\ hist' = Append(hist, Removal)
    /\ UNCHANGED <<skind, nthreads, storage, cpc, cval, cn, cevald, cfirst, cret,
                   firstEval, everSet, started, ckwargs, lastClear, node>>
    /\ UNCHANGED nonCacheVars

NextStore == NextCache \/ StoreNew \/ FileRemove

(***************************************************************************)
(* Argument sets (Python dicts) and the binding helper                     *)
(***************************************************************************)
\* auxiliary.safe_lambda, line 12: the items of kwargs whose key is in keys
accepted_args(keys, kwargs) == [k \in {x \in DOMAIN kwargs : x \in keys} |-> kwargs[k]]
\* lines 13-14: the keys without an accepted item, each bound to None
missing_args(keys, accepted) == [k \in keys \ DOMAIN accepted |-> None]
\* line 15, accepted_args | missing_args: the right operand wins
DictUnion(d1, d2) == [k \in DOMAIN d1 \cup DOMAIN d2 |->
                         IF k \in DOMAIN d2 THEN d2[k] ELSE d1[k]]

\* auxiliary.safe_lambda: all_args, the named arguments the function is
\* invoked with at line 16
safe_lambda(keys, kwargs) ==
    DictUnion(accepted_args(keys, kwargs),
              missing_args(keys, accepted_args(keys, kwargs)))

\* Target.key: the declared key, or 'it' when the node has none
DefaultKey == "it"
OwnKey == <<"a", "b", "c", "d", "e">>
\* the value / the exception child i produces
ValNames == <<"r1", "r2", "r3", "r4", "r5", "r6", "r7">>
ErrNames == <<"x1", "x2", "x3", "x4", "x5", "x6", "x7">>

\* bound: number of children of a Parallel node
MaxChildren == 3

\* the key lists of n children: each child has its own key or none
KeyLists(n) == {ks \in [1..n -> {OwnKey[i] : i \in 1..n} \cup {DefaultKey}] :
                   \A i \in 1..n : ks[i] \in {OwnKey[i], DefaultKey}}
KeySet(ks) == {ks[i] : i \in DOMAIN ks}
Distinct(ks) == \A i, j \in DOMAIN ks : ks[i] = ks[j] => i = j

\* reducers: None, or a function given by its accepted_keys
NoReducer == [none |-> TRUE, keys |-> {}]
Reducer(keys) == [none |-> FALSE, keys |-> keys]
ReducerOutcomes == {Ret("red"), Ret(None), Raise("xred")}

(***************************************************************************)
(* Parallel                                                                *)
(***************************************************************************)
Unsubmitted == [kind |-> "unsubmitted", val |-> None]
Pending == [kind |-> "pending", val |-> None]
Running == [kind |-> "running", val |-> None]
IsDone(f) == f.kind \in {"ret", "raise"}

\* ThreadPoolExecutor.__exit__ is shutdown(wait=True): it returns once every
\* submitted future is done
ExecutorNoWait(futures) == TRUE
ExecutorJoined(futures) == \A i \in DOMAIN futures : IsDone(futures[i])

\* an exception raised inside the with block leaves it once the executor
\* has shut down
Swallowed(exc) == FALSE
Propagates(exc) == exc # None

\* the results the siblings of a child have produced so far, by key
SiblingResults(keys, futures) ==
    [k \in {keys[i] : i \in {x \in DOMAIN futures : futures[x].kind = "ret"}} |-> "sib"]

\* the named arguments a child is submitted with: **kwargs of the call
ChildKwargsWithSiblings(kw, sibs) ==
    [k \in DOMAIN kw \cup DOMAIN sibs |-> IF k \in DOMAIN sibs THEN sibs[k] ELSE kw[k]]
ChildKwargs(kw, sibs) == kw

InitPar ==
    /\ pn \in 0..MaxChildren
    /\ pkeys \in KeyLists(pn)
    /\ preducer \in {NoReducer, Reducer(KeySet(pkeys)), Reducer({"a", "zz"})}
    /\ pkwargs \in ArgSets
    /\ ppc = "idle"
    /\ pi = 1
    /\ pj = 1
    /\ fut = [i \in 1..pn |-> Unsubmitted]
    /\ pseen = [i \in 1..pn |-> <<>>]
    /\ porder = <<>>
    /\ plist = <<>>
    /\ presults = EmptyDict
    /\ pexc = None
    /\ pargs = EmptyDict
    /\ prcalls = 0
    /\ pout = NoOutcome

\* the other specifications leave the Parallel node unused
ParUnused ==
    /\ pn = 0
    /\ pkeys = <<>>
    /\ preducer = NoReducer
    /\ pkwargs = EmptyDict
    /\ ppc = "unused"
    /\ pi = 1
    /\ pj = 1
    /\ fut = <<>>
    /\ pseen = <<>>
    /\ porder = <<>>
    /\ plist = <<>>
    /\ presults = EmptyDict
    /\ pexc = None
    /\ pargs = EmptyDict
    /\ prcalls = 0
    /\ pout = NoOutcome

\* Parallel.__call__ is entered: line 18, with ThreadPoolExecutor()
ParCall ==
    /\ ppc = "idle"
    /\ ppc' = IF pn = 0 THEN "collect" ELSE "submit"
    /\ UNCHANGED <<pn, pkeys, preducer, pkwargs, pi, pj, fut, pseen, porder, plist,
                   presults, pexc, pargs, prcalls, pout>>
    /\ UNCHANGED nonParVars

\* line 19: executor.submit(agent, *args, **kwargs), in declared order
ParSubmit ==
    /\ ppc = "submit"
    /\ fut' = [fut EXCEPT ![pi] = Pending]
    /\ pi' = pi + 1
    /\ ppc' = IF pi = pn THEN "collect" ELSE "submit"
    /\ UNCHANGED <<pn, pkeys, preducer, pkwargs, pj, pseen, porder, plist,
                   presults, pexc, pargs, prcalls, pout>>
    /\ UNCHANGED nonParVars

\* a worker thread takes child i and invokes agent(*args, **kwargs)
ParChildStart(i) ==
    /\ fut[i] = Pending
    /\ fut' = [fut EXCEPT ![i] = Running]
    /\ pseen' = [pseen EXCEPT ![i] = Append(@, ChildKwargs(pkwargs, SiblingResults(pkeys, fut)))]
    /\ UNCHANGED <<pn, pkeys, preducer, pkwargs, ppc, pi, pj, porder, plist,
                   presults, pexc, pargs, prcalls, pout>>
    /\ UNCHANGED nonParVars

\* child i returns its value; the future is completed
ParChildReturn(i) ==
    /\ fut[i] = Running
    /\ fut' = [fut EXCEPT ![i] = Ret(ValNames[i])]
    /\ porder' = Append(porder, i)
    /\ UNCHANGED <<pn, pkeys, preducer, pkwargs, ppc, pi, pj, pseen, plist,
                   presults, pexc, pargs, prcalls, pout>>
    /\ UNCHANGED nonParVars

\* child i raises; the future holds the exception
ParChildRaise(i) ==
    /\ fut[i] = Running
    /\ fut' = [fut EXCEPT ![i] = Raise(ErrNames[i])]
    /\ porder' = Append(porder, i)
    /\ UNCHANGED <<pn, pkeys, preducer, pkwargs, ppc, pi, pj, pseen, plist,
                   presults, pexc, pargs, prcalls, pout>>
    /\ UNCHANGED nonParVars

\* the future the j-th f.result() of line 20 waits for: the j-th submitted
FutureResultByCompletion(j) == IF j <= Len(porder) THEN fut[porder[j]] ELSE fut[j]
FutureResult(j) == fut[j]

\* line 20: f.result() blocks until the future is done, then returns its
\* value or re-raises its exception, which leaves the with block
ParResult ==
    /\ ppc = "collect"
    /\ pj <= pn
    /\ IsDone(FutureResult(pj))
    /\ IF FutureResult(pj).kind = "ret"
         THEN /\ plist' = Append(plist, FutureResult(pj).val)
              /\ pj' = pj + 1
              /\ UNCHANGED <<pexc, ppc>>
         ELSE /\ pexc' = FutureResult(pj).val
              /\ ppc' = "exit"
              /\ UNCHANGED <<plist, pj>>
    /\ UNCHANGED <<pn, pkeys, preducer, pkwargs, pi, fut, pseen, porder,
                   presults, pargs, prcalls, pout>>
    /\ UNCHANGED nonParVars

\* {agent.key: result for agent, result in zip(agents, results)}: a later
\* pair replaces an earlier one with the same key
RECURSIVE DictZip(_, _, _)
DictZip(keys, vals, n) ==
    IF n = 0 THEN EmptyDict ELSE Put(DictZip(keys, vals, n - 1), keys[n], vals[n])

\* line 21
ParZip ==
    /\ ppc = "collect"
    /\ pj > pn
    /\ presults' = DictZip(pkeys, plist, pn)
    /\ ppc' = "exit"
    /\ UNCHANGED <<pn, pkeys, preducer, pkwargs, pi, pj, fut, pseen, porder, plist,
                   pexc, pargs, prcalls, pout>>
    /\ UNCHANGED nonParVars

\* leaving the with block: executor.shutdown(wait=True) joins every child;
\* then a pending exception propagates, else lines 23-26
ParExit ==
    /\ ppc = "exit"
    /\ ExecutorJoined(fut)
    /\ IF Propagates(pexc)
         THEN ppc' = "done" /\ pout' = Raise(pexc)
         ELSE IF preducer.none
                THEN ppc' = "done" /\ pout' = Ret(None)
                ELSE ppc' = "reduce" /\ UNCHANGED pout
    /\ UNCHANGED <<pn, pkeys, preducer, pkwargs, pi, pj, fut, pseen, porder, plist,
                   presults, pexc, pargs, prcalls>>
    /\ UNCHANGED nonParVars

\* line 24: return safe_lambda(self.reducer, self.reducer_keys, **results)
ParReduce(o) ==
    /\ ppc = "reduce"
    /\ pargs' = safe_lambda(preducer.keys, presults)
    /\ prcalls' = prcalls + 1
    /\ pout' = o
    /\ ppc' = "done"
    /\ UNCHANGED <<pn, pkeys, preducer, pkwargs, pi, pj, fut, pseen, porder, plist,
                   presults, pexc>>
    /\ UNCHANGED nonParVars

NextPar ==
    \/ ParCall
    \/ ParSubmit
    \/ \E i \in 1..pn : ParChildStart(i)
    \/ \E i \in 1..pn : ParChildReturn(i)
    \/ \E i \in 1..pn : ParChildRaise(i)
    \/ ParResult
    \/ ParZip
    \/ ParExit
    \/ \E o \in ReducerOutcomes : ParReduce(o)

(***************************************************************************)
(* Fork                                                                    *)
(***************************************************************************)
\* values the seed child returns
SeedValues == StrValues
\* keys of the seed child
SeedKeys == {DefaultKey, "s"}

\* positional arguments a Fork node is called with
PositionalArgs == {<<>>, <<"p0">>}

InitForkNode ==
    /\ fkkey \in SeedKeys
    /\ fkkwargs \in ArgSets
    /\ fkargs \in PositionalArgs
    /\ fkpc = "idle"
    /\ fkseed = 0
    /\ fkseedargs = EmptyDict
    /\ fkseedout = NoOutcome
    /\ fkmaps = 0
    /\ fkmapargs = EmptyDict
    /\ fkmapped = FALSE
    /\ fkn = 0
    /\ fki = 1
    /\ fkj = 1
    /\ fkfut = <<>>
    /\ fkseen = <<>>
    /\ fkorder = <<>>
    /\ fklist = <<>>
    /\ fkexc = None
    /\ fkredarg = <<>>
    /\ fkrcalls = 0
    /\ fkout = NoOutcome

\* the other specifications leave the Fork node unused
ForkUnused ==
    /\ fkkey = DefaultKey
    /\ fkkwargs = EmptyDict
    /\ fkargs = <<>>
    /\ fkpc = "unused"
    /\ fkseed = 0
    /\ fkseedargs = EmptyDict
    /\ fkseedout = NoOutcome
    /\ fkmaps = 0
    /\ fkmapargs = EmptyDict
    /\ fkmapped = FALSE
    /\ fkn = 0
    /\ fki = 1
    /\ fkj = 1
    /\ fkfut = <<>>
    /\ fkseen = <<>>
    /\ fkorder = <<>>
    /\ fklist = <<>>
    /\ fkexc = None
    /\ fkredarg = <<>>
    /\ fkrcalls = 0
    /\ fkout = NoOutcome

\* Fork.__call__ is entered; line 15 invokes self._target(*args, **kwargs)
ForkCall ==
    /\ fkpc = "idle"
    /\ fkpc' = "seed"
    /\ fkseed' = fkseed + 1
    /\ fkseedargs' = fkkwargs
    /\ UNCHANGED <<fkkey, fkargs, fkkwargs, fkseedout, fkmaps, fkmapargs, fkmapped, fkn, fki,
                   fkj, fkfut, fkseen, fkorder, fklist, fkexc, fkredarg, fkrcalls,
                   fkout>>
    /\ UNCHANGED nonForkVars

\* the named arguments of line 16, mapper(**result), with
\* result = {self._target.key: <the seed's value>}
MapperArgsWithCall(kw, k, v) == Put(kw, k, v)
MapperArgs(kw, k, v) == Put(EmptyDict, k, v)

\* line 15: the seed returns v; line 16 invokes the mapper
ForkSeedReturn(v) ==
    /\ fkpc = "seed"
    /\ fkseedout' = Ret(v)
    /\ fkmaps' = fkmaps + 1
    /\ fkmapargs' = MapperArgs(fkkwargs, fkkey, v)
    /\ fkpc' = "map"
    /\ UNCHANGED <<fkkey, fkargs, fkkwargs, fkseed, fkseedargs, fkmapped, fkn, fki, fkj, fkfut,
                   fkseen, fkorder, fklist, fkexc, fkredarg, fkrcalls, fkout>>
    /\ UNCHANGED nonForkVars

\* line 15: the seed raises; the exception leaves __call__
ForkSeedRaise(e) ==
    /\ fkpc = "seed"
    /\ fkseedout' = Raise(e)
    /\ fkout' = Raise(e)
    /\ fkpc' = "done"
    /\ UNCHANGED <<fkkey, fkargs, fkkwargs, fkseed, fkseedargs, fkmaps, fkmapargs, fkmapped,
                   fkn, fki, fkj, fkfut, fkseen, fkorder, fklist, fkexc, fkredarg,
                   fkrcalls>>
    /\ UNCHANGED nonForkVars

\* line 16: the mapper returns a list of n targets; line 18 enters the
\* with block
ForkMapperReturn(n) ==
    /\ fkpc = "map"
    /\ fkmapped' = TRUE
    /\ fkn' = n
    /\ fkfut' = [i \in 1..n |-> Unsubmitted]
    /\ fkseen' = [i \in 1..n |-> <<>>]
    /\ fkpc' = IF n = 0 THEN "collect" ELSE "submit"
    /\ UNCHANGED <<fkkey, fkargs, fkkwargs, fkseed, fkseedargs, fkseedout, fkmaps, fkmapargs,
                   fki, fkj, fkorder, fklist, fkexc, fkredarg, fkrcalls, fkout>>
    /\ UNCHANGED nonForkVars

\* line 16: the mapper raises; the exception leaves __call__
ForkMapperRaise ==
    /\ fkpc = "map"
    /\ fkout' = Raise("xmap")
    /\ fkpc' = "done"
    /\ UNCHANGED <<fkkey, fkargs, fkkwargs, fkseed, fkseedargs, fkseedout, fkmaps, fkmapargs,
                   fkmapped, fkn, fki, fkj, fkfut, fkseen, fkorder, fklist, fkexc,
                   fkredarg, fkrcalls>>
    /\ UNCHANGED nonForkVars

\* line 19: executor.submit(trg, *args, **kwargs), in generation order
ForkSubmit ==
    /\ fkpc = "submit"
    /\ fkfut' = [fkfut EXCEPT ![fki] = Pending]
    /\ fki' = fki + 1
    /\ fkpc' = IF fki = fkn THEN "collect" ELSE "submit"
    /\ UNCHANGED <<fkkey, fkargs, fkkwargs, fkseed, fkseedargs, fkseedout, fkmaps, fkmapargs,
                   fkmapped, fkn, fkj, fkseen, fkorder, fklist, fkexc, fkredarg,
                   fkrcalls, fkout>>
    /\ UNCHANGED nonForkVars

\* line 19, executor.submit(trg, *args, **kwargs): the arguments of the
\* call itself; result of line 15 (key k, value v) is not among them
GeneratedArgsWithSeed(args, kw, k, v) == [args |-> args, kwargs |-> Put(kw, k, v)]
GeneratedArgs(args, kw, k, v) == [args |-> args, kwargs |-> kw]

\* a worker thread takes generated child i and invokes trg(*args, **kwargs)
ForkChildStart(i) ==
    /\ fkfut[i] = Pending
    /\ fkfut' = [fkfut EXCEPT ![i] = Running]
    /\ fkseen' = [fkseen EXCEPT ![i] =
                     Append(@, GeneratedArgs(fkargs, fkkwargs, fkkey, fkseedout.val))]
    /\ UNCHANGED <<fkkey, fkargs, fkkwargs, fkpc, fkseed, fkseedargs, fkseedout, fkmaps,
                   fkmapargs, fkmapped, fkn, fki, fkj, fkorder, fklist, fkexc,
                   fkredarg, fkrcalls, fkout>>
    /\ UNCHANGED nonForkVars

\* generated child i returns its value; the future is completed
ForkChildReturn(i) ==
    /\ fkfut[i] = Running
    /\ fkfut' = [fkfut EXCEPT ![i] = Ret(ValNames[i])]
    /\ fkorder' = Append(fkorder, i)
    /\ UNCHANGED <<fkkey, fkargs, fkkwargs, fkpc, fkseed, fkseedargs, fkseedout, fkmaps,
                   fkmapargs, fkmapped, fkn, fki, fkj, fkseen, fklist, fkexc,
                   fkredarg, fkrcalls, fkout>>
    /\ UNCHANGED nonForkVars

\* generated child i raises; the future holds the exception
ForkChildRaise(i) ==
    /\ fkfut[i] = Running
    /\ fkfut' = [fkfut EXCEPT ![i] = Raise(ErrNames[i])]
    /\ fkorder' = Append(fkorder, i)
    /\ UNCHANGED <<fkkey, fkargs, fkkwargs, fkpc, fkseed, fkseedargs, fkseedout, fkmaps,
                   fkmapargs, fkmapped, fkn, fki, fkj, fkseen, fklist, fkexc,
                   fkredarg, fkrcalls, fkout>>
    /\ UNCHANGED nonForkVars

\* the future the j-th f.result() of line 20 waits for: the j-th submitted
ForkFutureByCompletion(j) == IF j <= Len(fkorder) THEN fkfut[fkorder[j]] ELSE fkfut[j]
ForkFuture(j) == fkfut[j]

\* line 20: f.result() blocks until the future is done, then returns its
\* value or re-raises its exception, which leaves the with block
ForkResult ==
    /\ fkpc = "collect"
    /\ fkj <= fkn
    /\ IsDone(ForkFuture(fkj))
    /\ IF ForkFuture(fkj).kind = "ret"
         THEN /\ fklist' = Append(fklist, ForkFuture(fkj).val)
              /\ fkj' = fkj + 1
              /\ fkpc' = IF fkj = fkn THEN "exit" ELSE "collect"
              /\ UNCHANGED fkexc
         ELSE /\ fkexc' = ForkFuture(fkj).val
              /\ fkpc' = "exit"
              /\ UNCHANGED <<fklist, fkj>>
    /\ UNCHANGED <<fkkey, fkargs, fkkwargs, fkseed, fkseedargs, fkseedout, fkmaps, fkmapargs,
                   fkmapped, fkn, fki, fkfut, fkseen, fkorder, fkredarg, fkrcalls,
                   fkout>>
    /\ UNCHANGED nonForkVars

\* line 20 over an empty list of futures
ForkNoResult ==
    /\ fkpc = "collect"
    /\ fkn = 0
    /\ fkpc' = "exit"
    /\ UNCHANGED <<fkkey, fkargs, fkkwargs, fkseed, fkseedargs, fkseedout, fkmaps, fkmapargs,
                   fkmapped, fkn, fki, fkj, fkfut, fkseen, fkorder, fklist, fkexc,
                   fkredarg, fkrcalls, fkout>>
    /\ UNCHANGED nonForkVars

\* leaving the with block: executor.shutdown(wait=True) joins every generated
\* child; then a pending exception propagates, else line 22 follows
ForkExit ==
    /\ fkpc = "exit"
    /\ ExecutorJoined(fkfut)
    /\ IF Propagates(fkexc)
         THEN fkpc' = "done" /\ fkout' = Raise(fkexc)
         ELSE fkpc' = "reduce" /\ UNCHANGED fkout
    /\ UNCHANGED <<fkkey, fkargs, fkkwargs, fkseed, fkseedargs, fkseedout, fkmaps, fkmapargs,
                   fkmapped, fkn, fki, fkj, fkfut, fkseen, fkorder, fklist, fkexc,
                   fkredarg, fkrcalls>>
    /\ UNCHANGED nonForkVars

\* line 22: return self._reducer(results)
ForkReduce(o) ==
    /\ fkpc = "reduce"
    /\ fkredarg' = fklist
    /\ fkrcalls' = fkrcalls + 1
    /\ fkout' = o
    /\ fkpc' = "done"
    /\ UNCHANGED <<fkkey, fkargs, fkkwargs, fkseed, fkseedargs, fkseedout, fkmaps, fkmapargs,
                   fkmapped, fkn, fki, fkj, fkfut, fkseen, fkorder, fklist, fkexc>>
    /\ UNCHANGED nonForkVars

NextFork ==
    \/ ForkCall
    \/ \E v \in SeedValues : ForkSeedReturn(v)
    \/ \E e \in Failures : ForkSeedRaise(e)
    \/ \E n \in 0..MaxChildren : ForkMapperReturn(n)
    \/ ForkMapperRaise
    \/ ForkSubmit
    \/ \E i \in 1..fkn : ForkChildStart(i)
    \/ \E i \in 1..fkn : ForkChildReturn(i)
    \/ \E i \in 1..fkn : ForkChildRaise(i)
    \/ ForkResult
    \/ ForkNoResult
    \/ ForkExit
    \/ \E o \in ReducerOutcomes : ForkReduce(o)

(***************************************************************************)
(* Sequential                                                              *)
(***************************************************************************)
\* a second value child i may produce: children are arbitrary callables
AltNames == <<"s1", "s2", "s3", "s4", "s5", "s6", "s7">>
ChildValues(i) == {ValNames[i], AltNames[i]}

\* sequential(agents, reducer, key) is about to construct the node: the
\* list of children may be empty
InitSeq ==
    /\ sqn \in 0..MaxChildren
    /\ sqkeys \in KeyLists(sqn)
    /\ sqreducer \in {NoReducer, Reducer(KeySet(sqkeys)), Reducer({"a", "zz"})}
    /\ sqkwargs0 \in ArgSets
    /\ sqkwargs = EmptyDict
    /\ sqresults = EmptyDict
    /\ sqpc = "new"
    /\ sqi = 1
    /\ sqresult = None
    /\ sqcalls = <<>>
    /\ sqargs = EmptyDict
    /\ sqrcalls = 0
    /\ sqout = NoOutcome

SeqUnused ==
    /\ sqn = 0
    /\ sqkeys = <<>>
    /\ sqreducer = NoReducer
    /\ sqkwargs0 = EmptyDict
    /\ sqkwargs = EmptyDict
    /\ sqresults = EmptyDict
    /\ sqpc = "unused"
    /\ sqi = 1
    /\ sqresult = None
    /\ sqcalls = <<>>
    /\ sqargs = EmptyDict
    /\ sqrcalls = 0
    /\ sqout = NoOutcome

\* one invocation agent(*args, **kwargs) of child i with outcome o
Invocation(i, kw, o) == [child |-> i, seen |-> kw, out |-> o]

\* line 15: assert len(self.agents) > 0
AssertNothing(n) == TRUE
AssertNonEmpty(n) == n > 0

\* Sequential.__init__, lines 7-15: the failed assertion raises
\* AssertionError out of sequential(), which returns no node
SeqInit ==
    /\ sqpc = "new"
    /\ sqpc' = IF AssertNonEmpty(sqn) THEN "idle" ELSE "failed"
    /\ UNCHANGED <<sqn, sqkeys, sqreducer, sqkwargs0, sqkwargs, sqresults, sqi,
                   sqresult, sqcalls, sqargs, sqrcalls, sqout>>
    /\ UNCHANGED nonSeqVars

\* Sequential.__call__ is entered with **kwargs, a dict of its own;
\* line 18: results = {}; line 20 over no children falls through to line 25
SeqCall ==
    /\ sqpc = "idle"
    /\ sqkwargs' = sqkwargs0
    /\ sqresults' = EmptyDict
    /\ sqi' = 1
    /\ sqpc' = IF sqn = 0 THEN "reduce" ELSE "first"
    /\ UNCHANGED <<sqn, sqkeys, sqreducer, sqkwargs0, sqresult, sqcalls, sqargs,
                   sqrcalls, sqout>>
    /\ UNCHANGED nonSeqVars

\* line 21: result = agent(*args, **kwargs), the child returns v
SeqFirstReturn(v) ==
    /\ sqpc = "first"
    /\ v \in ChildValues(sqi)
    /\ sqresult' = v
    /\ sqcalls' = Append(sqcalls, Invocation(sqi, sqkwargs, Ret(v)))
    /\ sqpc' = "second"
    /\ UNCHANGED <<sqn, sqkeys, sqreducer, sqkwargs0, sqkwargs, sqresults, sqi,
                   sqargs, sqrcalls, sqout>>
    /\ UNCHANGED nonSeqVars

\* line 21: the child raises, which leaves __call__
SeqFirstRaiseSwallowed ==
    /\ sqpc = "first"
    /\ sqresult' = None
    /\ sqcalls' = Append(sqcalls, Invocation(sqi, sqkwargs, Raise(ErrNames[sqi])))
    /\ sqpc' = "second"
    /\ UNCHANGED <<sqn, sqkeys, sqreducer, sqkwargs0, sqkwargs, sqresults, sqi,
                   sqargs, sqrcalls, sqout>>
    /\ UNCHANGED nonSeqVars

SeqFirstRaise ==
    /\ sqpc = "first"
    /\ sqcalls' = Append(sqcalls, Invocation(sqi, sqkwargs, Raise(ErrNames[sqi])))
    /\ sqout' = Raise(ErrNames[sqi])
    /\ sqpc' = "done"
    /\ UNCHANGED <<sqn, sqkeys, sqreducer, sqkwargs0, sqkwargs, sqresults, sqi,
                   sqresult, sqargs, sqrcalls>>
    /\ UNCHANGED nonSeqVars

\* line 22, kwargs[key] = value: the assignment to a key the dict already
\* holds replaces its value
SetDefault(kw, k, v) == IF k \in DOMAIN kw THEN kw ELSE Put(kw, k, v)
SetItem(kw, k, v) == Put(kw, k, v)

\* line 17: def __call__(self, *args, **kwargs) collects the named arguments
\* into a dict of the call's own; the caller's set is another object
CallerArgsAliased(held, local) == local
CallerArgs(held, local) == held

\* line 22: kwargs[agent.key] = <value>
SeqBindNothing(kw, k, v) == kw
SeqBind(kw, k, v) == SetItem(kw, k, v)

\* line 22: kwargs[agent.key] = agent(*args, **kwargs), the child is invoked
\* again and returns v; line 23: results[agent.key] = result; next child
SeqSecondReturn(v) ==
    /\ sqpc = "second"
    /\ v \in ChildValues(sqi)
    /\ sqcalls' = Append(sqcalls, Invocation(sqi, sqkwargs, Ret(v)))
    /\ sqkwargs' = SeqBind(sqkwargs, sqkeys[sqi], v)
    /\ sqresults' = Put(sqresults, sqkeys[sqi], sqresult)
    /\ sqi' = sqi + 1
    /\ sqpc' = IF sqi = sqn THEN "reduce" ELSE "first"
    /\ sqkwargs0' = CallerArgs(sqkwargs0, SeqBind(sqkwargs, sqkeys[sqi], v))
    /\ UNCHANGED <<sqn, sqkeys, sqreducer, sqresult, sqargs, sqrcalls, sqout>>
    /\ UNCHANGED nonSeqVars

\* line 22: the second invocation raises, which leaves __call__
SeqSecondRaise ==
    /\ sqpc = "second"
    /\ sqcalls' = Append(sqcalls, Invocation(sqi, sqkwargs, Raise(ErrNames[sqi])))
    /\ sqout' = Raise(ErrNames[sqi])
    /\ sqpc' = "done"
    /\ UNCHANGED <<sqn, sqkeys, sqreducer, sqkwargs0, sqkwargs, sqresults, sqi,
                   sqresult, sqargs, sqrcalls>>
    /\ UNCHANGED nonSeqVars

\* f(**d1, **d2): a key of both dicts raises TypeError at the call site
\* (multiple values for a keyword argument), before f is entered
DuplicateKeyword(d1, d2) == DOMAIN d1 \cap DOMAIN d2 # {}
Merged(d1, d2) == [k \in DOMAIN d1 \cup DOMAIN d2 |->
                      IF k \in DOMAIN d2 THEN d2[k] ELSE d1[k]]

\* lines 25-28: return safe_lambda(self.reducer, self.reducer_keys,
\*                                 **kwargs, **results), or None
SeqReduce(o) ==
    /\ sqpc = "reduce"
    /\ sqpc' = "done"
    /\ IF sqreducer.none
         THEN /\ sqout' = Ret(None)
              /\ o = Ret(None)
              /\ UNCHANGED <<sqargs, sqrcalls>>
         ELSE IF DuplicateKeyword(sqkwargs, sqresults)
                THEN /\ sqout' = Raise("TypeError")
                     /\ o = Ret(None)
                     /\ UNCHANGED <<sqargs, sqrcalls>>
                ELSE /\ sqargs' = safe_lambda(sqreducer.keys, Merged(sqkwargs, sqresults))
                     /\ sqrcalls' = sqrcalls + 1
                     /\ sqout' = o
    /\ UNCHANGED <<sqn, sqkeys, sqreducer, sqkwargs0, sqkwargs, sqresults, sqi,
                   sqresult, sqcalls>>
    /\ UNCHANGED nonSeqVars

NextSeq ==
    \/ SeqInit
    \/ SeqCall
    \/ \E v \in {ValNames[i] : i \in 1..MaxChildren} \cup
                {AltNames[i] : i \in 1..MaxChildren} : SeqFirstReturn(v)
    \/ SeqFirstRaise
    \/ \E v \in {ValNames[i] : i \in 1..MaxChildren} \cup
                {AltNames[i] : i \in 1..MaxChildren} : SeqSecondReturn(v)
    \/ SeqSecondRaise
    \/ \E o \in ReducerOutcomes : SeqReduce(o)

(***************************************************************************)
(* Retry                                                                   *)
(***************************************************************************)
\* bound: the values of max_retry the node is constructed with
MaxRetry == 2

\* retry(agent, timeout_millis=1000, timeout_mult=1, max_retry=3), line 19:
\* the defaults and other values a node is built with
TimeoutMillis == {0, 500, 1000}
TimeoutMult == {1, 2}

\* line 34: seconds = timeout / 1000.0, a quotient of timeout by 1000
MillisPerSecond == 1000
Seconds(timeout) == [num |-> timeout, den |-> MillisPerSecond]

\* line 33: timeout = self.timeout_millis * self.timeout_mult * self.iteration,
\* computed and slept (line 35) before line 37 counts the failure
TimeoutAfterCount(millis, mult, it) == millis * mult * (it + 1)
Timeout(millis, mult, it) == millis * mult * it

\* Retry.__init__: self.iteration = 0
InitRetry ==
    /\ max_retry \in 0..MaxRetry
    /\ timeout_millis \in TimeoutMillis
    /\ timeout_mult \in TimeoutMult
    /\ rsleeps = <<>>
    /\ iteration = 0
    /\ rpc = "idle"
    /\ rcalls = 0
    /\ ritstart = 0
    /\ rinv = 0
    /\ rfails = 0
    /\ rlast = NoOutcome
    /\ rfailsEver = 0
    /\ rabsorbed = 0
    /\ rout = NoOutcome

RetryUnused ==
    /\ max_retry = 0
    /\ timeout_millis = 0
    /\ timeout_mult = 1
    /\ rsleeps = <<>>
    /\ iteration = 0
    /\ rpc = "unused"
    /\ rcalls = 0
    /\ ritstart = 0
    /\ rinv = 0
    /\ rfails = 0
    /\ rlast = NoOutcome
    /\ rfailsEver = 0
    /\ rabsorbed = 0
    /\ rout = NoOutcome

\* the counter a call starts with: __call__ never assigns it before the loop
CounterResetAtCall(it) == 0
CounterAtCall(it) == it

\* Retry.__call__ is entered, line 29: while True
RetryCall ==
    /\ rpc = "idle"
    /\ rcalls < MaxCalls
    /\ rcalls' = rcalls + 1
    /\ iteration' = CounterAtCall(iteration)
    /\ ritstart' = CounterAtCall(iteration)
    /\ rinv' = 0
    /\ rfails' = 0
    /\ rpc' = "try"
    /\ UNCHANGED <<max_retry, timeout_millis, timeout_mult, rsleeps, rlast,
                   rfailsEver, rabsorbed, rout>>
    /\ UNCHANGED nonRetryVars

\* line 31: return agent(*args, **kwargs), the child returns v
RetryChildReturn(v) ==
    /\ rpc = "try"
    /\ rinv' = rinv + 1
    /\ rlast' = Ret(v)
    /\ rout' = Ret(v)
    /\ rpc' = "idle"
    /\ UNCHANGED <<max_retry, timeout_millis, timeout_mult, rsleeps, iteration,
                   rcalls, ritstart, rfails, rfailsEver,
                   rabsorbed>>
    /\ UNCHANGED nonRetryVars

\* line 38: if self.iteration > self.max_retry
BudgetExceededEarly(it, mx) == it >= mx
BudgetExceeded(it, mx) == it > mx

\* line 37: self.iteration += 1
CounterUntouched(it) == it
CounterAfterFailure(it) == it + 1

\* lines 32-39: the child raises e; sleep (lines 33-35), count the failure, then raise e
\* itself when the budget is exceeded, else go round the loop again
RetryChildRaise(e) ==
    /\ rpc = "try"
    /\ rinv' = rinv + 1
    /\ rfails' = rfails + 1
    /\ rfailsEver' = rfailsEver + 1
    /\ rlast' = Raise(e)
    /\ rsleeps' = Append(rsleeps, Seconds(Timeout(timeout_millis, timeout_mult, iteration)))
    /\ iteration' = CounterAfterFailure(iteration)
    /\ IF BudgetExceeded(CounterAfterFailure(iteration), max_retry)
         THEN /\ rout' = Raise(e)
              /\ rpc' = "idle"
              /\ UNCHANGED rabsorbed
         ELSE /\ rabsorbed' = rabsorbed + 1
              /\ UNCHANGED <<rout, rpc>>
    /\ UNCHANGED <<max_retry, timeout_millis, timeout_mult, rcalls, ritstart>>
    /\ UNCHANGED nonRetryVars

NextRetry ==
    \/ RetryCall
    \/ \E v \in Results : RetryChildReturn(v)
    \/ \E e \in Failures : RetryChildRaise(e)

(***************************************************************************)
(* Catch                                                                   *)
(***************************************************************************)
\* argument sets a Catch node is called with; inside the fallback of an
\* enclosing Catch the set already binds error
CatchArgSets == ArgSets \cup {[error |-> "e0"]}

InitCatchNode ==
    /\ kpc = "idle"
    /\ kkwargs = EmptyDict
    /\ kcalls = 0
    /\ kprimary = 0
    /\ kfallback = 0
    /\ kcaught = NoOutcome
    /\ kfbargs = EmptyDict
    /\ kfbout = NoOutcome
    /\ kout = NoOutcome

CatchUnused ==
    /\ kpc = "unused"
    /\ kkwargs = EmptyDict
    /\ kcalls = 0
    /\ kprimary = 0
    /\ kfallback = 0
    /\ kcaught = NoOutcome
    /\ kfbargs = EmptyDict
    /\ kfbout = NoOutcome
    /\ kout = NoOutcome

\* Catch.__call__ is entered with the named arguments kw
CatchCall(kw) ==
    /\ kpc = "idle"
    /\ kcalls < MaxCalls
    /\ kcalls' = kcalls + 1
    /\ kkwargs' = kw
    /\ kprimary' = 0
    /\ kfallback' = 0
    /\ kcaught' = NoOutcome
    /\ kfbargs' = EmptyDict
    /\ kfbout' = NoOutcome
    /\ kpc' = "try"
    /\ UNCHANGED kout
    /\ UNCHANGED nonCatchVars

\* line 9: return agent(*args, **kwargs), the primary returns v
CatchPrimaryReturn(v) ==
    /\ kpc = "try"
    /\ kprimary' = kprimary + 1
    /\ kcaught' = Ret(v)
    /\ kout' = Ret(v)
    /\ kpc' = "idle"
    /\ UNCHANGED <<kkwargs, kcalls, kfallback, kfbargs, kfbout>>
    /\ UNCHANGED nonCatchVars

\* lines 9-10: the primary raises e, caught by except Exception as e
CatchPrimaryRaise(e) ==
    /\ kpc = "try"
    /\ kprimary' = kprimary + 1
    /\ kcaught' = Raise(e)
    /\ kpc' = "except"
    /\ UNCHANGED <<kkwargs, kcalls, kfallback, kfbargs, kfbout, kout>>
    /\ UNCHANGED nonCatchVars

\* line 11: what the fallback returns or raises is what __call__ returns
\* or raises
FallbackFailureReplaced(o, caught) == IF o.kind = "raise" THEN caught ELSE o
FallbackResult(o, caught) == o

\* line 11: return exception(*args, **kwargs, error=e).  When kwargs
\* already binds error the call expression raises (a keyword given twice)
\* and the fallback is not entered; else the fallback runs with outcome o
CatchFallback(o) ==
    /\ kpc = "except"
    /\ kpc' = "idle"
    /\ IF DuplicateKeyword(kkwargs, [error |-> kcaught.val])
         THEN /\ kout' = Raise("TypeError")
              /\ o = Ret(None)
              /\ UNCHANGED <<kfallback, kfbargs, kfbout>>
         ELSE /\ kfallback' = kfallback + 1
              /\ kfbargs' = Merged(kkwargs, [error |-> kcaught.val])
              /\ kfbout' = o
              /\ kout' = FallbackResult(o, kcaught)
    /\ UNCHANGED <<kkwargs, kcalls, kprimary, kcaught>>
    /\ UNCHANGED nonCatchVars

NextCatch ==
    \/ \E kw \in CatchArgSets : CatchCall(kw)
    \/ \E v \in Results : CatchPrimaryReturn(v)
    \/ \E e \in Failures : CatchPrimaryRaise(e)
    \/ \E o \in {Ret(v) : v \in Results} \cup {Raise(e) : e \in Failures} :
          CatchFallback(o)

(***************************************************************************)
(* Loop and loopn                                                          *)
(***************************************************************************)
\* bound: the count N of the predicate idx < N
MaxCount == 3
\* bound: the index up to which an iteration is followed
MaxIndex == 4

\* argument sets a Loop node is called with; the child of an enclosing
\* Loop is called with idx bound
LoopArgSets == ArgSets \cup {[idx |-> "i0"]}

\* loop(target, condition, reducer): the caller's condition and reducer
InitLoopByLoop ==
    /\ lvia = "loop"
    /\ lcond \in [count : 0..MaxCount, varkw : BOOLEAN, always : {FALSE}] \cup
                [count : {0}, varkw : BOOLEAN, always : {TRUE}]
    /\ lreducer = TRUE

\* loopn(target, count, key) = loop(target, lambda idx: idx < count, key):
\* the third positional parameter of loop is reducer, so the node's reducer
\* is key (None or a str) and its condition accepts idx only
InitLoopByLoopn ==
    /\ lvia = "loopn"
    /\ lcond \in [count : 0..MaxCount, varkw : {FALSE}, always : {FALSE}]
    /\ lreducer = FALSE

InitLoopNode ==
    /\ InitLoopByLoop \/ InitLoopByLoopn
    /\ lkey \in {DefaultKey, "a"}
    /\ lkwargs0 \in LoopArgSets
    /\ lkwargs = EmptyDict
    /\ lindex = 0
    /\ lresults = <<>>
    /\ lpc = "idle"
    /\ lcalls = <<>>
    /\ lredarg = <<>>
    /\ lrcalls = 0
    /\ lout = NoOutcome
    /\ lconds = <<>>

LoopUnused ==
    /\ lvia = "loop"
    /\ lcond = [count |-> 0, varkw |-> TRUE, always |-> FALSE]
    /\ lreducer = TRUE
    /\ lkey = DefaultKey
    /\ lkwargs0 = EmptyDict
    /\ lkwargs = EmptyDict
    /\ lindex = 0
    /\ lresults = <<>>
    /\ lpc = "unused"
    /\ lcalls = <<>>
    /\ lredarg = <<>>
    /\ lrcalls = 0
    /\ lout = NoOutcome
    /\ lconds = <<>>

\* Loop.__call__ is entered with **kwargs, a dict of its own;
\* lines 13-15: results = [], index = 0
LoopCall ==
    /\ lpc = "idle"
    /\ lkwargs' = lkwargs0
    /\ lresults' = <<>>
    /\ lindex' = 0
    /\ lpc' = "while"
    /\ UNCHANGED <<lvia, lcond, lreducer, lkey, lkwargs0, lcalls, lredarg, lrcalls,
                   lout>>
    /\ UNCHANGED <<lconds, nonLoopVars>>

\* f(**kw) for a function without **kwargs: a name it does not declare
\* raises TypeError (unexpected keyword argument)
UnexpectedKeyword(declared, varkw, kw) == ~varkw /\ ~(DOMAIN kw \subseteq declared)

\* the predicate of the caller: lambda idx, **kwargs: True, or idx < N
\* (loopn, line 27: idx < count)
ConditionHolds(idx, cond) == cond.always \/ idx < cond.count

\* line 16, while <result>: the loop goes on as long as the condition
\* returns true, whatever the index
ContinuesBelowLimit(holds, index) == holds /\ index < 1
Continues(holds, index) == holds

\* line 16: while condition(idx=index, **kwargs)
LoopCondition ==
    /\ lpc = "while"
    /\ IF \/ DuplicateKeyword([idx |-> lindex], lkwargs)
          \/ UnexpectedKeyword({"idx"}, lcond.varkw, lkwargs)
         THEN lpc' = "done" /\ lout' = Raise("TypeError") /\ UNCHANGED lconds
         ELSE /\ lpc' = IF Continues(ConditionHolds(lindex, lcond), lindex)
                           THEN "body" ELSE "return"
              /\ lconds' = Append(lconds, [idx |-> lindex,
                                           seen |-> Merged([idx |-> lindex], lkwargs),
                                           result |-> ConditionHolds(lindex, lcond)])
              /\ UNCHANGED lout
    /\ UNCHANGED <<lvia, lcond, lreducer, lkey, lkwargs0, lkwargs, lindex, lresults,
                   lcalls, lredarg, lrcalls>>
    /\ UNCHANGED nonLoopVars

\* line 19: kwargs[target.key] = result
LoopBindNothing(kw, k, v) == kw
LoopBind(kw, k, v) == SetItem(kw, k, v)

\* lines 17-20: result = self.target(*args, **kwargs, idx=index) returns v;
\* results.append(result); kwargs[target.key] = result; index += 1
LoopChildReturn(v) ==
    /\ lpc = "body"
    /\ lindex < MaxIndex
    /\ ~DuplicateKeyword(lkwargs, [idx |-> lindex])
    /\ v \in ChildValues(lindex + 1)
    /\ lcalls' = Append(lcalls, [idx |-> lindex,
                                 seen |-> Merged(lkwargs, [idx |-> lindex]),
                                 out |-> Ret(v)])
    /\ lresults' = Append(lresults, v)
    /\ lkwargs' = LoopBind(lkwargs, lkey, v)
    /\ lindex' = lindex + 1
    /\ lpc' = "while"
    /\ lkwargs0' = CallerArgs(lkwargs0, LoopBind(lkwargs, lkey, v))
    /\ UNCHANGED <<lvia, lcond, lreducer, lkey, lredarg, lrcalls, lout>>
    /\ UNCHANGED <<lconds, nonLoopVars>>

\* line 17: the child raises, which leaves __call__
LoopChildRaise ==
    /\ lpc = "body"
    /\ ~DuplicateKeyword(lkwargs, [idx |-> lindex])
    /\ lcalls' = Append(lcalls, [idx |-> lindex,
                                 seen |-> Merged(lkwargs, [idx |-> lindex]),
                                 out |-> Raise(ErrNames[lindex + 1])])
    /\ lout' = Raise(ErrNames[lindex + 1])
    /\ lpc' = "done"
    /\ UNCHANGED <<lvia, lcond, lreducer, lkey, lkwargs0, lkwargs, lindex, lresults,
                   lredarg, lrcalls>>
    /\ UNCHANGED <<lconds, nonLoopVars>>

\* line 22: return self.reducer(results); calling None or a str raises
\* TypeError (object is not callable)
LoopReturn(o) ==
    /\ lpc = "return"
    /\ lpc' = "done"
    /\ IF lreducer
         THEN /\ lredarg' = lresults
              /\ lrcalls' = lrcalls + 1
              /\ lout' = o
         ELSE /\ lout' = Raise("TypeError")
              /\ o = Ret(None)
              /\ UNCHANGED <<lredarg, lrcalls>>
    /\ UNCHANGED <<lvia, lcond, lreducer, lkey, lkwargs0, lkwargs, lindex, lresults,
                   lcalls>>
    /\ UNCHANGED <<lconds, nonLoopVars>>

NextLoop ==
    \/ LoopCall
    \/ LoopCondition
    \/ \E v \in {ValNames[i] : i \in 1..MaxIndex} \cup
                {AltNames[i] : i \in 1..MaxIndex} : LoopChildReturn(v)
    \/ LoopChildRaise
    \/ \E o \in ReducerOutcomes : LoopReturn(o)

(***************************************************************************)
(* Switch                                                                  *)
(***************************************************************************)
\* objects a condition returns, and their truth value in `if condition(...)`
ConditionValues == {"True", "False", "v1", None}
Truthy(x) == x \notin {"False", None}

\* the branch of child index 1 is the if-branch, of index 2 the else-branch
IfBranch == 1
ElseBranch == 2

InitSwitchNode ==
    /\ wpc = "idle"
    /\ wkwargs = EmptyDict
    /\ wcalls = 0
    /\ wconds = 0
    /\ wcondargs = EmptyDict
    /\ wcond = NoOutcome
    /\ wif = 0
    /\ welse = 0
    /\ wbrargs = EmptyDict
    /\ wbrout = NoOutcome
    /\ wout = NoOutcome

\* the other specifications leave the Switch node unused
SwitchUnused ==
    /\ wpc = "unused"
    /\ wkwargs = EmptyDict
    /\ wcalls = 0
    /\ wconds = 0
    /\ wcondargs = EmptyDict
    /\ wcond = NoOutcome
    /\ wif = 0
    /\ welse = 0
    /\ wbrargs = EmptyDict
    /\ wbrout = NoOutcome
    /\ wout = NoOutcome

\* Switch.__call__ is entered; line 12 evaluates condition(**kwargs)
SwitchCall(kw) ==
    /\ wpc = "idle"
    /\ wcalls < MaxCalls
    /\ wcalls' = wcalls + 1
    /\ wkwargs' = kw
    /\ wconds' = 1
    /\ wcondargs' = kw
    /\ wcond' = NoOutcome
    /\ wif' = 0
    /\ welse' = 0
    /\ wbrargs' = EmptyDict
    /\ wbrout' = NoOutcome
    /\ wout' = NoOutcome
    /\ wpc' = "cond"
    /\ UNCHANGED nonSwitchVars

\* lines 12-15: the branch taken for the object the condition returned
AlwaysIfBranch(x) == IfBranch
ChosenBranch(x) == IF Truthy(x) THEN IfBranch ELSE ElseBranch

\* line 12: the condition returns x; line 13 or line 15 invokes a branch
SwitchCondition(x) ==
    /\ wpc = "cond"
    /\ wcond' = Ret(x)
    /\ wif' = IF ChosenBranch(x) = IfBranch THEN wif + 1 ELSE wif
    /\ welse' = IF ChosenBranch(x) = ElseBranch THEN welse + 1 ELSE welse
    /\ wbrargs' = wkwargs
    /\ wpc' = "branch"
    /\ UNCHANGED <<wkwargs, wcalls, wconds, wcondargs, wbrout, wout>>
    /\ UNCHANGED nonSwitchVars

\* line 12: the condition raises; the exception leaves __call__
SwitchConditionRaise ==
    /\ wpc = "cond"
    /\ wcond' = Raise("xcond")
    /\ wout' = Raise("xcond")
    /\ wpc' = "idle"
    /\ UNCHANGED <<wkwargs, wcalls, wconds, wcondargs, wif, welse, wbrargs, wbrout>>
    /\ UNCHANGED nonSwitchVars

\* lines 13, 15: the invoked branch returns v, which __call__ returns
SwitchBranchReturn(v) ==
    /\ wpc = "branch"
    /\ v \in ChildValues(IF wif = 1 THEN IfBranch ELSE ElseBranch)
    /\ wbrout' = Ret(v)
    /\ wout' = Ret(v)
    /\ wpc' = "idle"
    /\ UNCHANGED <<wkwargs, wcalls, wconds, wcondargs, wcond, wif, welse, wbrargs>>
    /\ UNCHANGED nonSwitchVars

\* lines 13, 15: the invoked branch raises; the exception leaves __call__
SwitchBranchRaise ==
    /\ wpc = "branch"
    /\ wbrout' = Raise(ErrNames[IF wif = 1 THEN IfBranch ELSE ElseBranch])
    /\ wout' = Raise(ErrNames[IF wif = 1 THEN IfBranch ELSE ElseBranch])
    /\ wpc' = "idle"
    /\ UNCHANGED <<wkwargs, wcalls, wconds, wcondargs, wcond, wif, welse, wbrargs>>
    /\ UNCHANGED nonSwitchVars

NextSwitch ==
    \/ \E kw \in CatchArgSets : SwitchCall(kw)
    \/ \E x \in ConditionValues : SwitchCondition(x)
    \/ SwitchConditionRaise
    \/ \E v \in ChildValues(IfBranch) \cup ChildValues(ElseBranch) : SwitchBranchReturn(v)
    \/ SwitchBranchRaise

(***************************************************************************)
(* safe_lambda applied to a function and an argument mapping               *)
(***************************************************************************)
\* bounds: number of parameter names, number of positional arguments
MaxParams == 3
MaxPositional == 1

\* parameter names of the function; keys of the argument mapping: some are
\* parameters, some are not, one is a parameter name of safe_lambda itself
ParamNames == {OwnKey[i] : i \in 1..MaxParams}
ArgNames == {OwnKey[i] : i \in 2..(MaxParams + 1)} \cup {"keys"}
ArgMappings == UNION {[S -> {"x0", "x1"}] : S \in SUBSET ArgNames}

\* def safe_lambda(lmbda, keys, *args, **kwargs): its own named parameters
HelperParams == {"lmbda", "keys"}

\* outcomes of the function once it is entered
FunctionOutcomes == {Ret("v1"), Raise("e1")}

InitBindCall ==
    /\ bkeys \in SUBSET ParamNames
    /\ bkwargs \in ArgMappings
    /\ bnpos \in 0..MaxPositional
    /\ bpc = "ready"
    /\ binvoked = FALSE
    /\ bpassed = EmptyDict
    /\ bout = NoOutcome

\* the other specifications do not apply the helper on its own
BindUnused ==
    /\ bkeys = {}
    /\ bkwargs = EmptyDict
    /\ bnpos = 0
    /\ bpc = "unused"
    /\ binvoked = FALSE
    /\ bpassed = EmptyDict
    /\ bout = NoOutcome

\* safe_lambda(self.call, self.call_keys, *args, **kwargs) (dummy.py line
\* 13): a key of kwargs that names a parameter of safe_lambda raises
\* TypeError (multiple values for argument) before line 12; at line 16 a
\* positional argument collides with the named argument of the same
\* parameter, or has no parameter to bind to, and raises TypeError
BindApply(o) ==
    /\ bpc = "ready"
    /\ bpc' = "done"
    /\ IF DOMAIN bkwargs \cap HelperParams # {}
         THEN /\ bout' = Raise("TypeError")
              /\ UNCHANGED <<binvoked, bpassed>>
         ELSE /\ bpassed' = safe_lambda(bkeys, bkwargs)
              /\ IF bnpos > 0
                   THEN bout' = Raise("TypeError") /\ UNCHANGED binvoked
                   ELSE bout' = o /\ binvoked' = TRUE
    /\ UNCHANGED <<bkeys, bkwargs, bnpos>>
    /\ UNCHANGED nonBindVars

NextBind == \E o \in FunctionOutcomes : BindApply(o)

(***************************************************************************)
(* Chat                                                                    *)
(***************************************************************************)
\* bound: the values of max_iter the node is constructed with
MaxRounds == 3

\* ai_chat, line 8: stop_word = '!done'
stop_word == "!done"

\* what the agent says and what the user replies, as sequences of words
Questions == {<<"q">>, <<"q", "!done">>, <<"q", "done">>}
Replies == {<<"r">>, <<"r", "!done">>, <<"r", "done">>}
FromAgent(entry) == entry[1] = "q"

\* argument sets a Chat node is called with; a caller may bind chat_history
ChatArgSets == ArgSets \cup {[chat_history |-> "h0"]}

\* lines 25 and 31, self.stop_word in <entry>: the word occurs in the text
ContainsNothing(word, text) == FALSE
Contains(word, text) == \E i \in DOMAIN text : text[i] = word

InitChatNode ==
    /\ max_iter \in 0..MaxRounds
    /\ chkwargs \in ChatArgSets
    /\ chpc = "idle"
    /\ chat_history = <<>>
    /\ chround = 0
    /\ chagents = 0
    /\ chinputs = 0
    /\ chout = NoOutcome

ChatUnused ==
    /\ max_iter = 0
    /\ chkwargs = EmptyDict
    /\ chpc = "unused"
    /\ chat_history = <<>>
    /\ chround = 0
    /\ chagents = 0
    /\ chinputs = 0
    /\ chout = NoOutcome

\* Chat.__call__ is entered, line 19: chat_history = []
ChatCall ==
    /\ chpc = "idle"
    /\ chat_history' = <<>>
    /\ chround' = 0
    /\ chpc' = "for"
    /\ UNCHANGED <<max_iter, chkwargs, chagents, chinputs, chout>>
    /\ UNCHANGED nonChatVars

\* line 20: for _ in range(self.max_iter); line 34 when the range is used up
ChatFor ==
    /\ chpc = "for"
    /\ IF chround < max_iter
         THEN /\ chround' = chround + 1
              /\ chpc' = "agent"
              /\ UNCHANGED chout
         ELSE /\ chpc' = "done"
              /\ chout' = Ret("chat_history")
              /\ UNCHANGED chround
    /\ UNCHANGED <<max_iter, chkwargs, chat_history, chagents, chinputs>>
    /\ UNCHANGED nonChatVars

\* lines 21-26: question = self.agent(chat_history=chat_history, **kwargs),
\* a TypeError when kwargs binds chat_history; the question is appended and
\* put out; a question with the stop word breaks the loop, line 34 returns
ChatAgent(o) ==
    /\ chpc = "agent"
    /\ IF "chat_history" \in DOMAIN chkwargs
         THEN /\ o = Raise("e1")
              /\ chpc' = "done"
              /\ chout' = Raise("TypeError")
              /\ UNCHANGED <<chat_history, chagents>>
         ELSE /\ chagents' = chagents + 1
              /\ IF o.kind = "raise"
                   THEN /\ chpc' = "done"
                        /\ chout' = o
                        /\ UNCHANGED chat_history
                   ELSE /\ chat_history' = Append(chat_history, o.val)
                        /\ IF Contains(stop_word, o.val)
                             THEN chpc' = "done" /\ chout' = Ret("chat_history")
                             ELSE chpc' = "input" /\ UNCHANGED chout
    /\ UNCHANGED <<max_iter, chkwargs, chround, chinputs>>
    /\ UNCHANGED nonChatVars

\* lines 28-32: reply = input_user(); the reply is appended; a reply with
\* the stop word breaks the loop, line 34 returns
ChatInput(o) ==
    /\ chpc = "input"
    /\ chinputs' = chinputs + 1
    /\ IF o.kind = "raise"
         THEN /\ chpc' = "done"
              /\ chout' = o
              /\ UNCHANGED chat_history
         ELSE /\ chat_history' = Append(chat_history, o.val)
              /\ IF Contains(stop_word, o.val)
                   THEN chpc' = "done" /\ chout' = Ret("chat_history")
                   ELSE chpc' = "for" /\ UNCHANGED chout
    /\ UNCHANGED <<max_iter, chkwargs, chround, chagents>>
    /\ UNCHANGED nonChatVars

NextChat ==
    \/ ChatCall
    \/ ChatFor
    \/ \E o \in {Ret(q) : q \in Questions} \cup {Raise("e1")} : ChatAgent(o)
    \/ \E o \in {Ret(r) : r \in Replies} \cup {Raise("EOFError")} : ChatInput(o)

(***************************************************************************)
(* Specifications                                                          *)
(***************************************************************************)
CacheUnused ==
    /\ InitCacheCommon
    /\ skind = "mem"
    /\ nthreads = 0

\* a Cache node called from one thread
InitCache == InitCacheCommon /\ nthreads = 1 /\ ParUnused /\ SeqUnused /\ RetryUnused /\ CatchUnused /\ LoopUnused /\ ForkUnused /\ SwitchUnused /\ BindUnused /\ ChatUnused
SpecCache == InitCache /\ [][NextCache]_vars

\* a Cache node shared by the children of one Parallel
InitCacheMT == InitCacheCommon /\ nthreads = MaxThreads /\ ParUnused /\ SeqUnused /\ RetryUnused /\ CatchUnused /\ LoopUnused /\ ForkUnused /\ SwitchUnused /\ BindUnused /\ ChatUnused
SpecCacheMT == InitCacheMT /\ [][NextCache]_vars

\* a file-backed Cache built by store(), its file and its owner
InitStore == InitCache /\ skind = "file"
SpecStore == InitStore /\ [][NextStore]_vars

\* one call of a Parallel node
InitParallel == InitPar /\ CacheUnused /\ SeqUnused /\ RetryUnused /\ CatchUnused /\ LoopUnused /\ ForkUnused /\ SwitchUnused /\ BindUnused /\ ChatUnused
SpecParallel == InitParallel /\ [][NextPar]_vars

\* one call of a Sequential node
InitSequential == InitSeq /\ CacheUnused /\ ParUnused /\ RetryUnused /\ CatchUnused /\ LoopUnused /\ ForkUnused /\ SwitchUnused /\ BindUnused /\ ChatUnused
SpecSequential == InitSequential /\ [][NextSeq]_vars

\* a Retry node and the calls made on it
InitRetryNode == InitRetry /\ CacheUnused /\ ParUnused /\ SeqUnused /\ CatchUnused /\ LoopUnused /\ ForkUnused /\ SwitchUnused /\ BindUnused /\ ChatUnused
SpecRetry == InitRetryNode /\ [][NextRetry]_vars

\* a Catch node and the calls made on it
InitCatch == InitCatchNode /\ CacheUnused /\ ParUnused /\ SeqUnused /\ RetryUnused /\ LoopUnused /\ ForkUnused /\ SwitchUnused /\ BindUnused /\ ChatUnused
SpecCatch == InitCatch /\ [][NextCatch]_vars

\* one call of a Loop node built by loop or loopn
InitLoop == InitLoopNode /\ CacheUnused /\ ParUnused /\ SeqUnused /\ RetryUnused /\ CatchUnused /\ ForkUnused /\ SwitchUnused /\ BindUnused /\ ChatUnused
SpecLoop == InitLoop /\ [][NextLoop]_vars

\* a call of a Loop node that keeps running: the interpreter executes the
\* next step of __call__, and the condition, the child and the reducer
\* come back
SpecLoopLive == InitLoop /\ [][NextLoop]_vars /\ WF_vars(NextLoop)

\* a Fork node
InitFork == InitForkNode /\ CacheUnused /\ ParUnused /\ SeqUnused /\ RetryUnused /\ CatchUnused /\ LoopUnused /\ SwitchUnused /\ BindUnused /\ ChatUnused
SpecFork == InitFork /\ [][NextFork]_vars

\* a fan-out node: a Parallel node or a Fork node
InitFanOut == InitParallel \/ InitFork
NextFanOut == NextPar \/ NextFork
SpecFanOut == InitFanOut /\ [][NextFanOut]_vars

\* a node that runs its children one after another: Sequential or Loop
InitChain == InitSequential \/ InitLoop
NextChain == NextSeq \/ NextLoop
SpecChain == InitChain /\ [][NextChain]_vars

\* a Switch node
InitSwitch == InitSwitchNode /\ CacheUnused /\ ParUnused /\ SeqUnused /\ RetryUnused /\ CatchUnused /\ LoopUnused /\ ForkUnused /\ BindUnused /\ ChatUnused
SpecSwitch == InitSwitch /\ [][NextSwitch]_vars

\* safe_lambda applied once to every function and argument mapping
InitBind == InitBindCall /\ CacheUnused /\ ParUnused /\ SeqUnused /\ RetryUnused /\ CatchUnused /\ LoopUnused /\ ForkUnused /\ SwitchUnused /\ ChatUnused
SpecBind == InitBind /\ [][NextBind]_vars

\* a call of a Chat node that keeps running: the agent and the user answer
InitChat == InitChatNode /\ CacheUnused /\ ParUnused /\ SeqUnused /\ RetryUnused /\ CatchUnused /\ LoopUnused /\ ForkUnused /\ SwitchUnused /\ BindUnused
SpecChat == InitChat /\ [][NextChat]_vars /\ WF_vars(NextChat)

\* any one combinator other than Cache
InitNodes == \/ InitParallel \/ InitSequential \/ InitRetryNode \/ InitCatch
             \/ InitLoop \/ InitFork \/ InitSwitch
NextNodes == \/ NextPar \/ NextSeq \/ NextRetry \/ NextCatch
             \/ NextLoop \/ NextFork \/ NextSwitch
SpecNodes == InitNodes /\ [][NextNodes]_vars

(***************************************************************************)
(* C1: keyless Cache, one thread: once a call has populated the entry,     *)
(* every later call before clear() returns the identical stored value and  *)
(* does not invoke the wrapped child; the call that populates an empty     *)
(* entry and its successor invoke the child once in total.                 *)
(***************************************************************************)
C1_KeylessCacheOnce ==
    \A i, j \in 1..Len(hist) :
        (i < j /\ hist[i].populated) =>
            /\ hist[j].out = Ret(hist[i].stored)
            /\ hist[j].n = 0
            /\ hist[j].populated
            /\ (hist[i].out.kind = "ret" /\ \A h \in 1..(i - 1) : ~hist[h].populated)
                  => (hist[i].out = hist[j].out /\ hist[i].n + hist[j].n = 1)

C1_Witness ==
    /\ Len(hist) >= 2
    /\ hist[1].populated
    /\ hist[1].n = 1
    /\ hist[2].out = Ret("v1")
    /\ hist[2].n = 0

(***************************************************************************)
(* C2: threads that concurrently make the first call into one Cache node:  *)
(* the child is evaluated at most once, and every such caller returns the  *)
(* result of that single evaluation.                                       *)
(***************************************************************************)
C2_ConcurrentFirstCallSingleEval ==
    /\ Cardinality({t \in Threads : cfirst[t] /\ cevald[t]}) <= 1
    /\ \A t \in Threads :
          (cfirst[t] /\ cpc[t] = "idle" /\ cret[t].kind = "ret") =>
              cret[t].val = firstEval

(***************************************************************************)
(* C3: Parallel, children with distinct output keys: under every schedule  *)
(* and completion order the reducer receives, under each child's key, the  *)
(* result of that same child.                                              *)
(***************************************************************************)
C3_ParallelByDeclaredOrder ==
    (prcalls > 0 /\ Distinct(pkeys)) =>
        \A i \in 1..pn :
            /\ presults[pkeys[i]] = fut[i].val
            /\ pkeys[i] \in preducer.keys => pargs[pkeys[i]] = fut[i].val

C3_Witness ==
    /\ prcalls > 0
    /\ Distinct(pkeys)
    /\ pn >= 3
    /\ porder[1] = pn
    /\ KeySet(pkeys) \subseteq DOMAIN pargs

(***************************************************************************)
(* C4: Sequential invokes its children in list order, and a child is not   *)
(* invoked before the result of every earlier child has been bound under   *)
(* that child's key: it observes, by name, the value the earlier child     *)
(* returned (the latest such child, when several share a key).             *)
(***************************************************************************)
\* the last invocation of child i before invocation q, or 0
LastInvocation(i, q) ==
    LET ps == {p \in 1..(q - 1) : sqcalls[p].child = i}
    IN  IF ps = {} THEN 0 ELSE CHOOSE p \in ps : \A r \in ps : r <= p

C4_SequentialVisibility ==
    \A q \in 1..Len(sqcalls) :
        LET j == sqcalls[q].child
            seen == sqcalls[q].seen
        IN  /\ \A p \in 1..(q - 1) : sqcalls[p].child <= j
            /\ \A i \in 1..(j - 1) :
                  LET p == LastInvocation(i, q)
                  IN  /\ p > 0
                      /\ sqcalls[p].out.kind = "ret"
                      /\ sqkeys[i] \in DOMAIN seen
                      /\ (\A m \in (i + 1)..(j - 1) : sqkeys[m] # sqkeys[i])
                            => seen[sqkeys[i]] = sqcalls[p].out.val

C4_Witness ==
    /\ sqpc = "done"
    /\ sqn >= 3
    /\ \E q \in 1..Len(sqcalls) :
          /\ sqcalls[q].child = 3
          /\ Distinct(sqkeys)
          /\ sqcalls[q].seen[sqkeys[1]] = AltNames[1]
          /\ sqcalls[q].seen[sqkeys[2]] = ValNames[2]

(***************************************************************************)
(* C5: after all children of a Sequential with a reducer have run          *)
(* successfully, the reducer is invoked exactly once with the children's   *)
(* results, and the call returns the reducer's outcome.                    *)
(***************************************************************************)
C5_SequentialReduces ==
    (sqpc = "done" /\ sqi > sqn /\ ~sqreducer.none) =>
        /\ sqrcalls = 1
        /\ sqout \in ReducerOutcomes
        /\ \A i \in 1..sqn : sqkeys[i] \in sqreducer.keys => sqkeys[i] \in DOMAIN sqargs

(***************************************************************************)
(* C6: the first call of a fresh Retry node with maximum N: when it        *)
(* returns, the child failed k <= N times and was invoked k + 1 times, and *)
(* the value is the child's; it raises only after N + 1 invocations that   *)
(* all failed, and raises the child's last failure itself.  While fewer    *)
(* than N + 1 invocations have failed the call goes on trying.             *)
(***************************************************************************)
C6_RetryFirstCall ==
    rcalls = 1 =>
        /\ rfails <= max_retry + 1
        /\ (rpc = "try") => (rinv = rfails /\ rfails <= max_retry)
        /\ (rpc = "idle" /\ rout.kind = "ret") =>
              (rfails <= max_retry /\ rinv = rfails + 1 /\ rout = rlast)
        /\ (rpc = "idle" /\ rout.kind = "raise") =>
              (rfails = max_retry + 1 /\ rinv = max_retry + 1 /\ rout = rlast)

C6_Witness ==
    /\ rcalls = 1
    /\ rpc = "idle"
    /\ max_retry = 2
    /\ rout = Raise("e2")
    /\ rinv = 3

(***************************************************************************)
(* C7: the attempt counter of a Retry node is never reset: it never        *)
(* decreases, grows by one with every failed child invocation and stays    *)
(* put on a successful one; at most max_retry failures are absorbed over   *)
(* the node's lifetime, and a call that starts with the counter at         *)
(* max_retry or beyond raises on the child's first failure.                *)
(***************************************************************************)
C7_CounterNeverReset ==
    /\ [][/\ iteration' >= iteration
          /\ (rfailsEver' # rfailsEver) => iteration' = iteration + 1
          /\ (rfailsEver' = rfailsEver) => iteration' = iteration]_vars
    /\ [](rabsorbed <= max_retry)
    /\ []((rpc \in {"try", "idle"} /\ ritstart >= max_retry /\ rfails > 0) =>
              (rpc = "idle" /\ rinv = 1 /\ rout = rlast /\ rout.kind = "raise"))

C7_Witness ==
    /\ rcalls = 3
    /\ max_retry = 2
    /\ ritstart = 3
    /\ iteration = 4
    /\ rpc = "idle"
    /\ rout.kind = "raise"

(***************************************************************************)
(* C8: a Catch call invokes the primary exactly once; when it succeeds its *)
(* value is returned and the fallback is not invoked; when it fails the    *)
(* fallback is invoked exactly once with the same named arguments plus the *)
(* failure bound under error, and its outcome is the outcome of the call.  *)
(***************************************************************************)
C8_CatchOnce ==
    (kcalls > 0 /\ kpc = "idle") =>
        /\ kprimary = 1
        /\ kcaught.kind = "ret" => (kfallback = 0 /\ kout = kcaught)
        /\ kcaught.kind = "raise" =>
              /\ kfallback = 1
              /\ kfbargs = Put(kkwargs, "error", kcaught.val)
              /\ kout = kfbout

(***************************************************************************)
(* C9: a Loop whose predicate is idx < N and whose child does not fail     *)
(* invokes the child exactly N times with idx = 0, ..., N-1 in that order  *)
(* and returns the reducer applied to the list of the N results.           *)
(***************************************************************************)
NoChildFailure == \A c \in 1..Len(lcalls) : lcalls[c].out.kind = "ret"

C9_LoopCount ==
    (lpc = "done" /\ lvia = "loop" /\ lcond.varkw /\ ~lcond.always /\ NoChildFailure) =>
        /\ Len(lcalls) = lcond.count
        /\ \A c \in 1..Len(lcalls) : lcalls[c].idx = c - 1
        /\ lrcalls = 1
        /\ lredarg = [c \in 1..Len(lcalls) |-> lcalls[c].out.val]
        /\ lout \in ReducerOutcomes

(***************************************************************************)
(* C10: loopn(target, count) terminates normally after invoking its child  *)
(* exactly count times with idx = 0, ..., count-1, for every count >= 0    *)
(* and every initial argument set (the child not failing).                 *)
(***************************************************************************)
C10_LoopnTerminatesNormally ==
    (lpc = "done" /\ lvia = "loopn" /\ NoChildFailure) =>
        /\ lout.kind = "ret"
        /\ Len(lcalls) = lcond.count
        /\ \A c \in 1..Len(lcalls) : lcalls[c].idx = c - 1

(***************************************************************************)
(* C11: a Fork call whose n generated children all return invokes the      *)
(* reducer exactly once, with a list of length n whose i-th element is the *)
(* result of the i-th generated child whatever the order in which the      *)
(* children completed, and returns the reducer's outcome.                  *)
(***************************************************************************)
AllGeneratedReturned == fkmapped /\ \A i \in 1..fkn : fkfut[i].kind = "ret"

C11_ForkReducesInGenerationOrder ==
    /\ fkrcalls <= 1
    /\ fkrcalls = 1 =>
          /\ Len(fkredarg) = fkn
          /\ \A i \in 1..fkn : fkfut[i] = Ret(fkredarg[i])
    /\ (fkpc = "done" /\ AllGeneratedReturned) =>
          /\ fkrcalls = 1
          /\ fkout \in ReducerOutcomes

\* three or more children, the first generated completed last, reduced
C11_Witness ==
    /\ fkpc = "done"
    /\ fkn >= 3
    /\ fkorder[fkn] = 1
    /\ fkrcalls = 1
    /\ fkout = Ret("red")

(***************************************************************************)
(* C12: a Fork call invokes the seed once, then the mapper once with only  *)
(* the seed's result bound under the seed's key; a generated child starts  *)
(* only after the mapper has returned; when the seed or the mapper fails   *)
(* no generated child and no reducer is invoked and the call fails.        *)
(***************************************************************************)
C12_ForkSeedThenMapper ==
    /\ fkseed <= 1
    /\ fkmaps <= 1
    /\ fkpc \notin {"idle", "unused"} => fkseed = 1 /\ fkseedargs = fkkwargs
    /\ fkmaps = 1 <=> fkseedout.kind = "ret"
    /\ fkmaps = 1 => fkmapargs = Put(EmptyDict, fkkey, fkseedout.val)
    /\ \A i \in DOMAIN fkseen : fkseen[i] # <<>> => fkmapped /\ fkmaps = 1
    /\ (fkpc = "done" /\ ~fkmapped) =>
          /\ fkn = 0
          /\ fkseen = <<>>
          /\ fkrcalls = 0
          /\ fkout.kind = "raise"

\* a call with a non-empty argument set whose mapper returned, reduced
C12_Witness ==
    /\ fkpc = "done"
    /\ fkkwargs # EmptyDict
    /\ fkmapped
    /\ fkn >= 1
    /\ fkrcalls = 1

(***************************************************************************)
(* C13: for every function with parameter set P and every argument mapping *)
(* A, safe_lambda invokes the function with named arguments whose key set  *)
(* is exactly P, a key of P carrying A's value when A has it and None      *)
(* otherwise; keys of A outside P are dropped and nothing fails.           *)
(***************************************************************************)
C13_SafeLambdaBindsExactlyP ==
    (bpc = "done" /\ bnpos = 0) =>
        /\ binvoked
        /\ DOMAIN bpassed = bkeys
        /\ \A k \in bkeys :
              bpassed[k] = IF k \in DOMAIN bkwargs THEN bkwargs[k] ELSE None
        /\ bout \in FunctionOutcomes

(***************************************************************************)
(* C14: a Cache node built with a key recomputes when the argument set     *)
(* changes: a call with an argument set that differs from that of the      *)
(* preceding call invokes the wrapped child again and returns the value    *)
(* computed for the new arguments, not the value cached for the old ones.  *)
(***************************************************************************)
C14_CacheRecomputesOnChangedArguments ==
    \A i \in 1..(Len(hist) - 1) :
        (hist[i].out.kind = "ret" /\ hist[i + 1].kw # hist[i].kw) =>
            /\ hist[i + 1].n = 1
            /\ hist[i + 1].evald
            /\ hist[i + 1].out = Ret(hist[i + 1].val)

(***************************************************************************)
(* C15: after clear() on a populated Cache node the very next call invokes *)
(* the wrapped child again and, when it returns, returns the newly         *)
(* computed value, which is the stored one; clear() on an empty cache,     *)
(* volatile or file-backed, changes nothing and does not fail.             *)
(***************************************************************************)
C15_ClearForcesRecompute ==
    /\ lastClear.out.kind # "raise"
    /\ ~lastClear.populated => ~lastClear.changed
    /\ (lastClear.populated /\ Len(hist) >= 1) =>
          /\ hist[1].n = 1
          /\ hist[1].out.kind = "ret" =>
                /\ hist[1].evald
                /\ hist[1].out = Ret(hist[1].val)
                /\ hist[1].stored = hist[1].val
          /\ hist[1].out.kind = "raise" =>
                \/ ~hist[1].evald
                \/ skind = "file" /\ hist[1].val \notin StrValues

\* a populated entry was cleared and the next call returned a value other
\* than the one computed first
C15_Witness ==
    /\ lastClear.populated
    /\ Len(hist) >= 1
    /\ firstEval = "v1"
    /\ hist[1].out = Ret("v2")
    /\ hist[1].n = 1

(***************************************************************************)
(* C16: when one or more children of a Parallel node, or generated         *)
(* children of a Fork node, fail, the call fails with the failure of the   *)
(* earliest-declared failing child, whichever child failed first in time;  *)
(* the reducer is never invoked and no result is returned.                 *)
(***************************************************************************)
Failing(futures) == {i \in DOMAIN futures : futures[i].kind = "raise"}
EarliestFailing(futures) ==
    CHOOSE i \in Failing(futures) : \A j \in Failing(futures) : i <= j

C16_FanOutFailsWithEarliestDeclared ==
    /\ Failing(fut) # {} =>
          /\ prcalls = 0
          /\ ppc = "done" => pout = Raise(fut[EarliestFailing(fut)].val)
    /\ Failing(fkfut) # {} =>
          /\ fkrcalls = 0
          /\ fkpc = "done" => fkout = Raise(fkfut[EarliestFailing(fkfut)].val)

\* two generated children of a Fork failed, the later-generated one first
C16_Witness ==
    /\ fkpc = "done"
    /\ {1, 2} \subseteq Failing(fkfut)
    /\ fkorder[1] = 2
    /\ fkout = Raise(ErrNames[1])

(***************************************************************************)
(* C17: in every Parallel or Fork call every child is started exactly once *)
(* and the call neither invokes the reducer, nor returns, nor raises       *)
(* before every child has finished, also when a sibling has failed.        *)
(***************************************************************************)
C17_FanOutJoinsEveryChild ==
    /\ \A i \in 1..pn : Len(pseen[i]) <= 1
    /\ \A i \in 1..fkn : Len(fkseen[i]) <= 1
    /\ (ppc \in {"reduce", "done"} \/ prcalls > 0 \/ pout # NoOutcome) =>
          \A i \in 1..pn : IsDone(fut[i]) /\ Len(pseen[i]) = 1
    /\ (fkmapped /\ (fkpc \in {"reduce", "done"} \/ fkrcalls > 0 \/ fkout # NoOutcome)) =>
          \A i \in 1..fkn : IsDone(fkfut[i]) /\ Len(fkseen[i]) = 1

\* a Parallel call has raised; its first child failed before any sibling
\* finished, and every sibling ran to its end
C17_Witness ==
    /\ ppc = "done"
    /\ pn >= 3
    /\ porder[1] = 1
    /\ fut[1].kind = "raise"
    /\ \A i \in 2..pn : fut[i].kind = "ret"
    /\ pout.kind = "raise"

(***************************************************************************)
(* C18: every child of a Parallel node is invoked with exactly the         *)
(* argument set the node was called with; no child sees a sibling's result *)
(* or binding, whatever the interleaving.                                  *)
(***************************************************************************)
C18_ParallelChildrenSeeInitialArguments ==
    \A i \in 1..pn : \A k \in 1..Len(pseen[i]) : pseen[i][k] = pkwargs

\* the first child, whose key is an argument's key, has returned and the
\* second child has been started with the arguments of the call
C18_Witness ==
    /\ pn >= 2
    /\ pkeys[1] = "a"
    /\ pkwargs # EmptyDict
    /\ porder = <<1>>
    /\ fut[1].kind = "ret"
    /\ fut[2] = Running
    /\ pseen[2] = <<pkwargs>>

(***************************************************************************)
(* C19: a Switch call evaluates the condition once on the named arguments  *)
(* and then invokes exactly one branch once, the if-branch when the        *)
(* condition is true and the else-branch otherwise, with the arguments of  *)
(* the call; the outcome of that branch is the outcome of the call.        *)
(***************************************************************************)
C19_SwitchOneBranch ==
    /\ wconds <= 1
    /\ wcalls > 0 => wconds = 1 /\ wcondargs = wkwargs
    /\ wcond.kind # "ret" => wif = 0 /\ welse = 0
    /\ wcond.kind = "ret" =>
          /\ wif = (IF Truthy(wcond.val) THEN 1 ELSE 0)
          /\ welse = (IF Truthy(wcond.val) THEN 0 ELSE 1)
          /\ wbrargs = wkwargs
          /\ wpc = "idle" =>
                /\ wout = wbrout
                /\ \/ wout.kind = "ret" /\
                      wout.val \in ChildValues(IF Truthy(wcond.val) THEN IfBranch ELSE ElseBranch)
                   \/ wout = Raise(ErrNames[IF Truthy(wcond.val) THEN IfBranch ELSE ElseBranch])

\* a call with arguments whose condition was false returned the
\* else-branch's value
C19_Witness ==
    /\ wpc = "idle"
    /\ wkwargs # EmptyDict
    /\ wcond = Ret("False")
    /\ welse = 1
    /\ wif = 0
    /\ wout = Ret(ValNames[ElseBranch])

(***************************************************************************)
(* C20: constructing a Sequential node with an empty child list fails at   *)
(* composition time, so no Sequential node with zero children is ever      *)
(* invoked; construction with one or more children succeeds.               *)
(***************************************************************************)
C20_SequentialNeedsAChild ==
    /\ sqpc \notin {"new", "unused"} => (sqpc = "failed" <=> sqn = 0)
    /\ sqn = 0 =>
          /\ sqpc \in {"new", "failed", "unused"}
          /\ sqcalls = <<>>
          /\ sqrcalls = 0
          /\ sqout = NoOutcome

\* the construction over an empty list has failed
C20_Witness ==
    /\ sqpc = "failed"
    /\ sqn = 0
    /\ ~sqreducer.none

(***************************************************************************)
(* C21: when an invocation of a child of a Sequential, or of the child of  *)
(* a Loop in some iteration, fails, the call fails with that same failure; *)
(* no later child or iteration is invoked and the reducer is not invoked.  *)
(***************************************************************************)
C21_ChildFailurePropagates ==
    /\ \A c \in 1..Len(sqcalls) :
          sqcalls[c].out.kind = "raise" =>
              /\ c = Len(sqcalls)
              /\ sqpc = "done"
              /\ sqout = sqcalls[c].out
              /\ sqrcalls = 0
    /\ \A c \in 1..Len(lcalls) :
          lcalls[c].out.kind = "raise" =>
              /\ c = Len(lcalls)
              /\ lpc = "done"
              /\ lout = lcalls[c].out
              /\ lrcalls = 0

\* the first child of a Sequential with a reducer and a later child failed
C21_Witness ==
    /\ sqpc = "done"
    /\ sqn >= 2
    /\ ~sqreducer.none
    /\ Len(sqcalls) = 1
    /\ sqcalls[1].out = Raise(ErrNames[1])
    /\ sqout = Raise(ErrNames[1])

(***************************************************************************)
(* C22: when the fallback of a Catch node itself fails, the call fails     *)
(* with the fallback's failure: it is not caught, the fallback is not      *)
(* invoked again, and the primary's failure does not replace it.           *)
(***************************************************************************)
C22_FallbackFailurePropagates ==
    kfbout.kind = "raise" =>
        /\ kpc = "idle"
        /\ kout = kfbout
        /\ kprimary = 1
        /\ kfallback = 1

\* the fallback failed with a failure other than the primary's
C22_Witness ==
    /\ kpc = "idle"
    /\ kcaught = Raise("e1")
    /\ kfbout = Raise("e2")
    /\ kout = Raise("e2")

(***************************************************************************)
(* C23 as stated: no combinator other than Cache carries mutable state, so *)
(* no step of a call to a Retry, Catch, Switch, Sequential, Parallel, Loop *)
(* or Fork node changes a field of the node instance, and the outcome of a *)
(* call never depends on earlier calls to the same instance.               *)
(***************************************************************************)
\* the instance fields of the Sequential, Parallel, Loop and Fork node and
\* of the Retry node without its counter; Catch and Switch have none
ConstructedFields == <<sqn, sqkeys, sqreducer, pn, pkeys, preducer, lvia, lcond,
                       lreducer, lkey, fkkey, max_retry>>

C24_CallerArgsUnchanged ==
    /\ [][/\ sqkwargs0' = sqkwargs0
          /\ lkwargs0' = lkwargs0
          /\ fkkwargs' = fkkwargs
          /\ kpc # "idle" => kkwargs' = kkwargs
          /\ wpc # "idle" => wkwargs' = wkwargs]_vars
    /\ [](Len(sqcalls) > 0 => sqcalls[1].seen = sqkwargs0)
    /\ [](Len(lcalls) > 0 => lcalls[1].seen = Put(lkwargs0, "idx", 0))
    /\ []("idx" \notin DOMAIN lkwargs0 \/ lcalls = <<>>)
    /\ [](kfallback = 1 => /\ "error" \notin DOMAIN kkwargs
                           /\ kfbargs = Put(kkwargs, "error", kcaught.val))

\* a Sequential call over two children returned: its own set holds the
\* children's results, the caller's set does not
C24_Witness ==
    /\ sqpc = "done"
    /\ sqout.kind = "ret"
    /\ sqn = 2
    /\ sqkeys[1] \in DOMAIN sqkwargs
    /\ sqkeys[1] \notin DOMAIN sqkwargs0
    /\ sqkwargs0 # EmptyDict

(***************************************************************************)
(* C25: a call to an empty Cache node whose child fails ends with the      *)
(* child's failure and leaves the entry empty, so the next call invokes    *)
(* the child again; an entry is populated only after a child invocation    *)
(* that returned.                                                          *)
(***************************************************************************)
C25_FailedChildLeavesCacheEmpty ==
    /\ \A i \in 1..Len(hist) :
          (hist[i].n = 1 /\ ~hist[i].evald) =>
             /\ hist[i].out.kind = "raise"
             /\ hist[i].out.val \in Failures
             /\ ~hist[i].populated
             /\ i < Len(hist) => hist[i + 1].n = 1
    /\ \A i \in 1..Len(hist) :
          hist[i].populated => \E j \in 1..i : hist[j].evald
    /\ ~is_empty => \/ \E i \in 1..Len(hist) : hist[i].evald
                    \/ \E t \in Threads : cevald[t]

\* the child failed in the first call and in the second, and returned in
\* the third, which populated the entry
C25_Witness ==
    /\ Len(hist) = 3
    /\ hist[1].out = Raise("e1") /\ hist[1].n = 1
    /\ hist[2].out = Raise("e2") /\ hist[2].n = 1
    /\ hist[3].out.kind = "ret" /\ hist[3].n = 1 /\ hist[3].populated

(***************************************************************************)
(* C26: file-backed Cache: in every state, also between the steps of a     *)
(* store, after a store that failed and for a concurrent caller, a backing *)
(* file that exists holds a complete value that an invocation of the child *)
(* returned.                                                               *)
(***************************************************************************)
C26_FileEntryNeverPartial ==
    (skind = "file" /\ fileExists) =>
        /\ fileContent \in Results
        /\ \/ \E t \in Threads : cevald[t] /\ cval[t] = fileContent
           \/ \E i \in 1..Len(hist) : hist[i].evald /\ hist[i].val = fileContent

(***************************************************************************)
(* C27: volatile Cache: a call that returned leaves the entry populated    *)
(* (is_empty() is false) whatever the child returned, None included, so    *)
(* the calls between two clears invoke the child at most once in total.    *)
(***************************************************************************)
C27_VolatileEntryPopulatedAfterCall ==
    skind = "mem" =>
        /\ \A i \in 1..Len(hist) : hist[i].out.kind = "ret" => hist[i].populated
        /\ \A i, j \in 1..Len(hist) :
              (i < j /\ hist[i].out.kind = "ret") => hist[j].n = 0

(***************************************************************************)
(* C28: file-backed Cache (store), one thread.  A call made while the file *)
(* is absent invokes the child once and, when the child's value is stored, *)
(* leaves it in the file and returns it.  A call made while the file is    *)
(* present returns the content of the file and invokes no child, also on   *)
(* a node newly built over the same path.  After the file is deleted the   *)
(* next call invokes the child again.                                      *)
(***************************************************************************)
\* the file exists when the i-th entry of the history begins
PresentBefore(i) == i > 1 /\ hist[i - 1].populated

C28_StoreFollowsFile ==
    \A i \in 1..Len(hist) :
        hist[i] # Removal =>
            /\ ~PresentBefore(i) =>
                  /\ hist[i].n = 1
                  /\ hist[i].out.kind = "ret" =>
                        /\ hist[i].evald
                        /\ hist[i].out = Ret(hist[i].val)
                        /\ hist[i].populated
                        /\ hist[i].stored = hist[i].val
                  /\ (hist[i].evald /\ hist[i].val \in StrValues) =>
                        hist[i].out.kind = "ret"
            /\ PresentBefore(i) =>
                  /\ hist[i].n = 0
                  /\ hist[i].out = Ret(hist[i - 1].stored)
                  /\ hist[i].populated
                  /\ hist[i].stored = hist[i - 1].stored

\* the first node computed and stored v1, a second node on the same path
\* returned v1 without its child, the file was deleted, and the next call
\* computed v2
C28_Witness ==
    /\ Len(hist) = 4
    /\ hist[1].node = 1 /\ hist[1].n = 1 /\ hist[1].out = Ret("v1")
    /\ hist[2].node = 2 /\ hist[2].n = 0 /\ hist[2].out = Ret("v1")
    /\ hist[3] = Removal
    /\ hist[4].n = 1 /\ hist[4].out = Ret("v2") /\ fileContent = "v2"

(***************************************************************************)
(* C29: a call of a Sequential node invokes each of its children exactly   *)
(* once, and the value bound into the argument set under a child's key is  *)
(* the value recorded for the reducer under that key.                      *)
(***************************************************************************)
C29_SequentialInvokesEachChildOnce ==
    /\ \A i \in 1..sqn : Cardinality({q \in 1..Len(sqcalls) : sqcalls[q].child = i}) <= 1
    /\ (sqpc \in {"reduce", "done"} /\ sqi > sqn) =>
          /\ Len(sqcalls) = sqn
          /\ \A k \in DOMAIN sqresults : k \in DOMAIN sqkwargs /\ sqkwargs[k] = sqresults[k]

(***************************************************************************)
(* C30: shadowing in Sequential: a child's result written under a key the  *)
(* argument set already holds, from the caller or from an earlier child,   *)
(* replaces the earlier value: every child invoked afterwards finds under  *)
(* each key the value written last, under a caller's key no child wrote    *)
(* the caller's value, and no other key.                                   *)
(***************************************************************************)
\* the children before child j that write key k
Writers(k, j) == {i \in 1..(j - 1) : sqkeys[i] = k}
LastWriter(k, j) == CHOOSE i \in Writers(k, j) : \A w \in Writers(k, j) : w <= i

C30_SequentialShadowing ==
    \A q \in 1..Len(sqcalls) :
        LET j == sqcalls[q].child
            seen == sqcalls[q].seen
        IN  /\ DOMAIN seen = DOMAIN sqkwargs0 \cup {sqkeys[i] : i \in 1..(j - 1)}
            /\ \A k \in DOMAIN seen :
                  IF Writers(k, j) = {}
                    THEN seen[k] = sqkwargs0[k]
                    ELSE seen[k] = sqcalls[LastInvocation(LastWriter(k, j), q)].out.val

\* the caller supplied a, the first child writes a, and the second child
\* was invoked with the first child's value under a, not the caller's
C30_Witness ==
    /\ sqn = 3
    /\ sqkwargs0 = [a |-> "x0"]
    /\ sqkeys[1] = "a"
    /\ \E q \in 1..Len(sqcalls) :
          /\ sqcalls[q].child = 2
          /\ sqcalls[q].seen = [a |-> ValNames[1]]

(***************************************************************************)
(* C31: the keyed result set a Parallel node hands to its reducer holds    *)
(* one entry per child, with the result of every child, also when two      *)
(* children have the same output key.                                      *)
(***************************************************************************)
C31_ParallelDeliversEveryResult ==
    prcalls > 0 =>
        /\ Cardinality(DOMAIN presults) = pn
        /\ \A i \in 1..pn : pkeys[i] \in DOMAIN presults /\ presults[pkeys[i]] = plist[i]

(***************************************************************************)
(* C32: the condition of a Loop is evaluated before every iteration, the   *)
(* first included; when it is false at index 0 the child is never invoked, *)
(* the reducer is invoked once with the empty list, and the call completes *)
(* with the reducer's outcome, not with a failure of the Loop.             *)
(***************************************************************************)
C32_FalseAtFirstIndexIsNormal ==
    /\ \A c \in 1..Len(lcalls) :
          /\ Len(lconds) >= c
          /\ lconds[c].idx = lcalls[c].idx
          /\ lconds[c].result
    /\ (lpc = "done" /\ Len(lconds) > 0 /\ ~lconds[1].result) =>
          /\ lconds[1].idx = 0
          /\ lcalls = <<>>
          /\ lrcalls = 1
          /\ lredarg = <<>>
          /\ lout \in ReducerOutcomes

(***************************************************************************)
(* C33: in a Loop the index starts at 0 and grows by one per iteration;    *)
(* the condition and the child of iteration 0 are invoked with the         *)
(* caller's bindings and idx = 0, those of iteration k >= 1 with the       *)
(* caller's bindings, the result of iteration k-1 under the child's output *)
(* key, and idx = k.                                                       *)
(***************************************************************************)
\* what iteration k, the c-th with c = k + 1, is to observe
Observed(c) ==
    IF c = 1 THEN Put(lkwargs0, "idx", 0)
    ELSE Put(Put(lkwargs0, lkey, lcalls[c - 1].out.val), "idx", c - 1)

C33_LoopIterationBindings ==
    /\ \A c \in 1..Len(lconds) :
          /\ lconds[c].idx = c - 1
          /\ c - 1 <= Len(lcalls)
          /\ lconds[c].seen = Observed(c)
    /\ \A c \in 1..Len(lcalls) :
          /\ lcalls[c].idx = c - 1
          /\ lcalls[c].seen = Observed(c)
    /\ lpc \in {"while", "body", "return"} => lindex = Len(lcalls)

\* the condition of iteration 2 saw the caller's a, the result of
\* iteration 1 under the child's key and idx = 2, and so did the child
C33_Witness ==
    /\ lkwargs0 = [a |-> "x0"]
    /\ lkey = DefaultKey
    /\ Len(lcalls) = 3
    /\ lconds[3].seen = [a |-> "x0", it |-> AltNames[2], idx |-> 2]
    /\ lcalls[3].seen = lconds[3].seen
    /\ lcalls[3].out.kind = "ret"

(***************************************************************************)
(* C34: a Loop call terminates if and only if its condition returns false  *)
(* at some index or an invocation fails.  The engine adds no bound of its  *)
(* own: while the condition is true and nothing fails the call iterates,   *)
(* so with an always-true condition and a child that never fails it does   *)
(* not return.                                                             *)
(***************************************************************************)
ConditionWasFalse == \E c \in 1..Len(lconds) : ~lconds[c].result
InvocationFailed ==
    \/ lcalls # <<>> /\ lcalls[Len(lcalls)].out.kind = "raise"
    \/ lout = Raise("TypeError")

C34_LoopEndsOnlyByConditionOrFailure ==
    /\ [](lpc = "done" => (ConditionWasFalse \/ InvocationFailed))
    /\ []((lcond.always /\ NoChildFailure /\ lout # Raise("TypeError")) => lpc # "done")
    /\ [][(lpc = "while" /\ lpc' = "return") => ~ConditionHolds(lindex, lcond)]_vars
    /\ (ConditionWasFalse ~> lpc = "done")
    /\ (InvocationFailed ~> lpc = "done")

\* an always-true condition and a child that did not fail: the call is in
\* its iteration of index MaxIndex, beyond every count, and has not returned
C34_Witness ==
    /\ lcond.always
    /\ lvia = "loop"
    /\ NoChildFailure
    /\ lindex = MaxIndex
    /\ Len(lcalls) = MaxIndex
    /\ lpc = "body"
    /\ lout = NoOutcome

(***************************************************************************)
(* C35: every child generated by the mapper of a Fork is invoked with the  *)
(* positional and named arguments of the Fork call itself: the seed's      *)
(* result, which goes to the mapper, is not bound for the generated        *)
(* children, and no generated child is given a sibling's result.           *)
(***************************************************************************)
C35_GeneratedChildrenSeeCallArguments ==
    \A i \in DOMAIN fkseen : \A k \in 1..Len(fkseen[i]) :
        /\ fkseen[i][k].args = fkargs
        /\ fkseen[i][k].kwargs = fkkwargs
        /\ fkkey \notin DOMAIN fkkwargs => fkkey \notin DOMAIN fkseen[i][k].kwargs
        /\ fkmapargs = Put(EmptyDict, fkkey, fkseedout.val)

\* a call with a positional and a named argument: the second generated
\* child runs after the first has returned, on the arguments of the call
C35_Witness ==
    /\ fkargs = <<"p0">>
    /\ fkkwargs = [a |-> "x0"]
    /\ fkn >= 2
    /\ fkorder = <<1>>
    /\ fkfut[1].kind = "ret"
    /\ fkfut[2] = Running
    /\ fkseen[2] = <<[args |-> <<"p0">>, kwargs |-> [a |-> "x0"]]>>

(***************************************************************************)
(* C36: on each failure of its child a Retry node sleeps                   *)
(* timeout_millis * timeout_mult * c milliseconds, c being the counter     *)
(* before that failure is counted: 0 for the first failure the node ever   *)
(* sees, and one more for each failure since construction.  The sleep      *)
(* comes before the budget test, so the failure that is raised again has   *)
(* been slept on too.                                                      *)
(***************************************************************************)
C36_RetrySleepsLinearly ==
    /\ iteration = rfailsEver
    /\ Len(rsleeps) = rfailsEver
    /\ \A k \in 1..Len(rsleeps) :
          /\ rsleeps[k].den = 1000
          /\ rsleeps[k].num = timeout_millis * timeout_mult * (k - 1)
    /\ (rpc = "idle" /\ rout.kind = "raise") =>
          /\ rsleeps # <<>>
          /\ rsleeps[Len(rsleeps)].num = timeout_millis * timeout_mult * (iteration - 1)

\* a node with 500 ms, multiplier 2 and max_retry 2 slept 0, 1000 and
\* 2000 ms in its first call, the last before raising again
C36_Witness ==
    /\ max_retry = 2
    /\ rcalls = 1
    /\ rpc = "idle"
    /\ rout.kind = "raise"
    /\ rsleeps = <<Seconds(0), Seconds(1000), Seconds(2000)>>

(***************************************************************************)
(* C37: a Chat call ends after at most max_iter rounds.  Its history holds *)
(* at most 2 * max_iter entries, a question of the agent and a reply of    *)
(* the user in turn, the first a question; the entry that contains the     *)
(* stop word is the last one, and input_user is not called after a         *)
(* question that contains the stop word.                                   *)
(***************************************************************************)
LastEntry == chat_history[Len(chat_history)]
HasStopWord(entry) == "!done" \in {entry[i] : i \in DOMAIN entry}

C37_ChatBoundedAlternating ==
    /\ [](/\ chround <= max_iter
          /\ chagents <= chround
          /\ chinputs <= chagents
          /\ Len(chat_history) <= 2 * max_iter
          /\ Len(chat_history) <= chagents + chinputs
          /\ \A i \in 1..Len(chat_history) :
                /\ FromAgent(chat_history[i]) <=> i % 2 = 1
                /\ HasStopWord(chat_history[i]) =>
                      (i = Len(chat_history) /\ chpc = "done"))
    /\ []((chpc = "done" /\ chout.kind = "ret") =>
             \/ chat_history # <<>> /\ HasStopWord(LastEntry)
             \/ chround = max_iter /\ Len(chat_history) = 2 * max_iter)
    /\ [][chinputs' # chinputs =>
             /\ chat_history # <<>>
             /\ FromAgent(LastEntry)
             /\ ~HasStopWord(LastEntry)]_vars
    /\ (chpc \in {"for", "agent", "input"} ~> chpc = "done")

\* a node with max_iter 3 returned in its second round: question, reply,
\* and a question with the stop word, after which the user was not asked
C37_Witness ==
    /\ max_iter = 3
    /\ chpc = "done"
    /\ chout.kind = "ret"
    /\ chat_history = << <<"q">>, <<"r">>, <<"q", "!done">> >>
    /\ chround = 2
    /\ chinputs = 1

====
